---- MODULE Spec2Model ----
(***************************************************************************)
(* A model of the `transformable` crate: the Transformable contract        *)
(* (encode / encoded_len / decode and the stream forms) for the concrete   *)
(* types of src/impls, the varint codec of src/utils.rs, and the           *)
(* process-wide clock anchor of src/impls/time/instant.rs.                 *)
(*                                                                         *)
(* Buffers are sequences of bytes (0..255), indexed from 1: Rust's dst[i]  *)
(* is dst[i+1] here.  A call's outcome is a record: kind "Ok" (a count     *)
(* returned), "OkUnit" (the unit value returned), "Err" (an error value    *)
(* returned) or "Panic" (the call aborts: an out-of-bounds index, an       *)
(* unwrap of an error, an arithmetic overflow).                            *)
(***************************************************************************)
EXTENDS Integers, Sequences, FiniteSets, TLC

\* Bytes a destination or source may hold beyond the longest length a type needs.
MaxPad == 1

-----------------------------------------------------------------------------
(* Byte buffers *)

\* The byte a caller pre-fills a destination with (no encoder writes it).
FillBytes == {170}

\* A buffer of n bytes, all b.
Fill(b, n) == [i \in 1..n |-> b]

\* Rust's s[from..to] (0-based, to exclusive) of a buffer.
Slice(s, from, to) == [i \in 1..(to - from) |-> s[from + i]]

\* Rust's dst[at..at+len(bytes)].copy_from_slice(bytes) (0-based at).
CopyInto(dst, at, bytes) ==
  [i \in 1..Len(dst) |->
     IF i > at /\ i <= at + Len(bytes) THEN bytes[i - at] ELSE dst[i]]

-----------------------------------------------------------------------------
(* Outcomes *)

NoVal == [ty |-> "none"]

EncOk(n, buf)     == [n |-> n, buf |-> buf, kind |-> "Ok", err |-> ""]
EncUnit(buf)      == [n |-> 0, buf |-> buf, kind |-> "OkUnit", err |-> ""]
EncErr(e, buf)    == [n |-> 0, buf |-> buf, kind |-> "Err", err |-> e]
EncPanic(buf)     == [n |-> 0, buf |-> buf, kind |-> "Panic", err |-> ""]

DecOk(n, v)       == [n |-> n, kind |-> "Ok", err |-> "", arg |-> 0, val |-> v]
DecErr(e, a)      == [n |-> 0, kind |-> "Err", err |-> e, arg |-> a, val |-> NoVal]
DecPanic          == [n |-> 0, kind |-> "Panic", err |-> "", arg |-> 0, val |-> NoVal]

-----------------------------------------------------------------------------
(* Tagged addresses: impl Transformable for IpAddr *)

TAG_SIZE == 1
V4_SIZE == 4
V6_SIZE == 16
MIN_ENCODED_LEN == TAG_SIZE + V4_SIZE
V6_ENCODED_LEN == TAG_SIZE + V6_SIZE
\* core::mem::size_of::<u16>()
SIZE_OF_U16 == 2

IpV4(o) == [ty |-> "IpAddr", fam |-> 4, octets |-> o]
IpV6(o) == [ty |-> "IpAddr", fam |-> 6, octets |-> o]

V4Octets == {<<127, 0, 0, 1>>}
V6Octets == {<<254, 128, 0, 0, 4, 6, 0, 0, 0, 0, 0, 0, 0, 0, 255, 1>>}

IpAddrValues == {IpV4(o) : o \in V4Octets} \cup {IpV6(o) : o \in V6Octets}

IpAddr_encoded_len(v) ==
  1 + (IF v.fam = 4 THEN 4 ELSE 16) + SIZE_OF_U16

IpAddr_encode(v, dst) ==
  LET encoded_len == IpAddr_encoded_len(v) IN
  IF Len(dst) < encoded_len
  THEN EncErr("EncodeBufferTooSmall", dst)
  ELSE LET tagged == CopyInto(dst, 0, <<IF v.fam = 4 THEN 4 ELSE 6>>) IN
       EncOk(encoded_len, CopyInto(tagged, 1, v.octets))

\* The bytes handed to write_all and the count returned on success.
IpAddr_encode_to_writer(v) ==
  IF v.fam = 4
  THEN [n |-> 7, bytes |-> CopyInto(CopyInto(Fill(0, 7), 0, <<4>>), 1, v.octets)]
  ELSE [n |-> 19, bytes |-> CopyInto(CopyInto(Fill(0, 19), 0, <<6>>), 1, v.octets)]

\* A tagged decoder that tests the length before the tag: a short source with
\* an unknown tag is then reported as corrupted.  Used to test that the error
\* of an unknown tag is observed at every length.
IpAddr_decode_length_first(src) ==
  IF Len(src) = 0 THEN DecPanic
  ELSE IF Len(src) < 7 THEN DecErr("Corrupted", 0)
  ELSE IF src[1] = 4 THEN DecOk(MIN_ENCODED_LEN, IpV4(Slice(src, 1, 5)))
  ELSE IF src[1] = 6 THEN
         IF Len(src) < 19 THEN DecErr("Corrupted", 0)
         ELSE DecOk(V6_ENCODED_LEN, IpV6(Slice(src, 1, 17)))
  ELSE DecErr("UnknownAddressFamily", src[1])

IpAddr_decode(src) ==
  IF Len(src) = 0 THEN DecPanic          \* src[0] of an empty slice
  ELSE IF src[1] = 4 THEN
         IF Len(src) < 7 THEN DecErr("Corrupted", 0)
         ELSE DecOk(MIN_ENCODED_LEN, IpV4(Slice(src, 1, 5)))
  ELSE IF src[1] = 6 THEN
         IF Len(src) < 19 THEN DecErr("Corrupted", 0)
         ELSE DecOk(V6_ENCODED_LEN, IpV6(Slice(src, 1, 17)))
  ELSE DecErr("UnknownAddressFamily", src[1])

-----------------------------------------------------------------------------
(* Fixed-width integers: ToNetworkEndian and impl_number_based_id *)

NumTypes == {"u8", "i8", "u16", "i16", "u32", "i32", "u64", "i64", "u128", "i128"}

\* core::mem::size_of::<$ty>()
SizeOf(ty) ==
  CASE ty \in {"u8", "i8"}     -> 1
    [] ty \in {"u16", "i16"}   -> 2
    [] ty \in {"u32", "i32"}   -> 4
    [] ty \in {"u64", "i64"}   -> 8
    [] ty \in {"u128", "i128"} -> 16

Signed(ty) == ty \in {"i8", "i16", "i32", "i64", "i128"}

\* The big-endian bytes of x >= 0 in a field of n bytes (x modulo 256^n).
RECURSIVE BE(_, _)
BE(x, n) == IF n = 0 THEN <<>> ELSE Append(BE(x \div 256, n - 1), x % 256)

\* The unsigned value of big-endian bytes.
RECURSIVE FromBE(_)
FromBE(bytes) ==
  IF Len(bytes) = 0 THEN 0
  ELSE FromBE(SubSeq(bytes, 1, Len(bytes) - 1)) * 256 + bytes[Len(bytes)]

\* The bitwise complement of each byte.
Complement(bytes) == [i \in 1..Len(bytes) |-> 255 - bytes[i]]

\* A byte order that writes the least significant byte first; used to test
\* that the layout property depends on the most-significant-first order.
to_network_endian_reversed(ty, x) ==
  LET be == IF x >= 0 THEN BE(x, SizeOf(ty)) ELSE Complement(BE(-x - 1, SizeOf(ty))) IN
  [i \in 1..Len(be) |-> be[Len(be) + 1 - i]]

\* NetworkEndian::write_<ty> (and [*self as u8] for the 8-bit types): a
\* negative value is written in two's complement, the complement of -x-1.
to_network_endian(ty, x) ==
  IF x >= 0 THEN BE(x, SizeOf(ty)) ELSE Complement(BE(-x - 1, SizeOf(ty)))

\* NetworkEndian::read_<ty> (and src[0] as i8 / src[0]) of exactly SizeOf(ty) bytes.
from_network_endian(ty, src) ==
  IF Signed(ty) /\ src[1] >= 128
  THEN -FromBE(Complement(src)) - 1
  ELSE FromBE(src)

Num(ty, x) == [n |-> x, ty |-> ty]

NumSamples(ty) ==
  CASE ty = "u8"  -> {0, 200}
    [] ty = "i8"  -> {-128, 100}
    [] ty = "u16" -> {300, 65535}
    [] ty = "i16" -> {-32768, 258}
    [] ty = "u32" -> {16909060}
    [] ty = "i32" -> {-2}
    [] ty = "u64" -> {8080}
    [] ty = "i64" -> {-8080}
    [] ty = "u128" -> {1}
    [] ty = "i128" -> {-256}

NumValues == UNION {{Num(ty, x) : x \in NumSamples(ty)} : ty \in NumTypes}

Num_encoded_len(v) == SizeOf(v.ty)

\* A bounds check that lets a destination one byte short through, so the copy
\* of SIZE bytes indexes past its end; used to test that the short-buffer
\* property depends on the guard.
Num_encode_loose_guard(v, dst) ==
  LET SIZE == SizeOf(v.ty)
      encoded_len == Num_encoded_len(v) IN
  IF Len(dst) + 1 < encoded_len
  THEN EncErr("EncodeBufferTooSmall", dst)
  ELSE IF Len(dst) < SIZE
       THEN EncPanic(dst)
       ELSE EncOk(SIZE, CopyInto(dst, 0, to_network_endian(v.ty, v.n)))

Num_encode(v, dst) ==
  LET SIZE == SizeOf(v.ty)
      encoded_len == Num_encoded_len(v) IN
  IF Len(dst) < encoded_len
  THEN EncErr("EncodeBufferTooSmall", dst)
  ELSE EncOk(SIZE, CopyInto(dst, 0, to_network_endian(v.ty, v.n)))

Num_decode(ty, src) ==
  LET SIZE == SizeOf(ty) IN
  IF Len(src) < SIZE
  THEN DecErr("NotEnoughBytes", 0)
  ELSE DecOk(SIZE, Num(ty, from_network_endian(ty, Slice(src, 0, SIZE))))

-----------------------------------------------------------------------------
(* Raw byte arrays: impl<const N: usize> Transformable for [u8; N] *)

ArrayTypes == {"[u8; 0]", "[u8; 3]"}

ArrayN(ty) == IF ty = "[u8; 0]" THEN 0 ELSE 3

Array(data) == [ty |-> IF Len(data) = 0 THEN "[u8; 0]" ELSE "[u8; 3]", data |-> data]

ArrayValues == {Array(<<>>), Array(<<1, 2, 3>>)}

Array_encoded_len(v) == Len(v.data)

\* N is the array's length; used for [u8; N] and, through octets(), by impl_addr.
ArrayN_encode(data, dst) ==
  IF Len(dst) < Len(data)
  THEN EncErr("EncodeBufferTooSmall", dst)
  ELSE EncOk(Len(data), CopyInto(dst, 0, data))

ArrayN_decode(N, src) ==
  IF Len(src) < N
  THEN [n |-> 0, kind |-> "Err", err |-> "NotEnoughBytes", data |-> <<>>]
  ELSE [n |-> N, kind |-> "Ok", err |-> "", data |-> Slice(src, 0, N)]

Array_encode(v, dst) == ArrayN_encode(v.data, dst)

Array_decode(ty, src) ==
  LET r == ArrayN_decode(ArrayN(ty), src) IN
  IF r.kind = "Ok" THEN DecOk(r.n, Array(r.data)) ELSE DecErr(r.err, 0)

-----------------------------------------------------------------------------
(* Length-delimited frames: encode_bytes / decode_bytes, impl_bytes, impl_string *)

\* core::mem::size_of::<u32>()
MESSAGE_SIZE_LEN == 4

encoded_bytes_len(src) == MESSAGE_SIZE_LEN + Len(src)

\* NetworkEndian::write_u32(.., src_len as u32): the low 32 bits of the length.
encode_bytes(src, dst) ==
  LET encoded_len == encoded_bytes_len(src) IN
  IF Len(dst) < encoded_len
  THEN EncErr("", dst)
  ELSE LET src_len == Len(src)
           hdr == CopyInto(dst, 0, BE(src_len, MESSAGE_SIZE_LEN)) IN
       EncOk(MESSAGE_SIZE_LEN + src_len, CopyInto(hdr, MESSAGE_SIZE_LEN, src))

\* decode_bytes reporting the payload's length as the count of bytes read.
\* Used to test that the frame property depends on the count.
decode_bytes_payload_count(src) ==
  LET len == Len(src)
      data_len == FromBE(Slice(src, 0, MESSAGE_SIZE_LEN)) IN
  IF len < MESSAGE_SIZE_LEN \/ data_len > len - MESSAGE_SIZE_LEN
  THEN [n |-> 0, kind |-> "Err", data |-> <<>>]
  ELSE [n |-> data_len, kind |-> "Ok",
        data |-> Slice(src, MESSAGE_SIZE_LEN, MESSAGE_SIZE_LEN + data_len)]

decode_bytes(src) ==
  LET len == Len(src) IN
  IF len < MESSAGE_SIZE_LEN
  THEN [n |-> 0, kind |-> "Err", data |-> <<>>]
  ELSE LET data_len == FromBE(Slice(src, 0, MESSAGE_SIZE_LEN)) IN
       IF data_len > len - MESSAGE_SIZE_LEN
       THEN [n |-> 0, kind |-> "Err", data |-> <<>>]
       ELSE [n |-> MESSAGE_SIZE_LEN + data_len, kind |-> "Ok",
             data |-> Slice(src, MESSAGE_SIZE_LEN, MESSAGE_SIZE_LEN + data_len)]

BytesTypes == {"Box<[u8]>", "Arc<[u8]>"}

Bytes(ty, data) == [ty |-> ty, data |-> data]

BytesValues == {Bytes("Box<[u8]>", <<>>), Bytes("Arc<[u8]>", <<104, 255>>)}

Bytes_encoded_len(v) == encoded_bytes_len(v.data)

\* encode_bytes(self.as_ref(), dst).map_err(|_| EncodeBufferTooSmall): the
\* count encode_bytes computed is the value of the body.
Bytes_encode(v, dst) ==
  LET r == encode_bytes(v.data, dst) IN
  IF r.kind = "Ok" THEN r ELSE EncErr("EncodeBufferTooSmall", r.buf)

Bytes_decode(ty, src) ==
  LET r == decode_bytes(src) IN
  IF r.kind = "Ok" THEN DecOk(r.n, Bytes(ty, r.data)) ELSE DecErr("Corrupted", 0)

\* core::str::from_utf8(bytes).is_ok(): the well-formed UTF-8 byte sequences.
Cont(b) == b >= 128 /\ b <= 191

RECURSIVE Utf8Valid(_)
Utf8Valid(b) ==
  LET n == Len(b)
      Rest(k) == SubSeq(b, k + 1, n) IN
  IF n = 0 THEN TRUE
  ELSE IF b[1] <= 127 THEN Utf8Valid(Rest(1))
  ELSE IF b[1] >= 194 /\ b[1] <= 223
       THEN n >= 2 /\ Cont(b[2]) /\ Utf8Valid(Rest(2))
  ELSE IF b[1] >= 224 /\ b[1] <= 239
       THEN /\ n >= 3
            /\ Cont(b[2]) /\ Cont(b[3])
            /\ (b[1] = 224 => b[2] >= 160)
            /\ (b[1] = 237 => b[2] <= 159)
            /\ Utf8Valid(Rest(3))
  ELSE IF b[1] >= 240 /\ b[1] <= 244
       THEN /\ n >= 4
            /\ Cont(b[2]) /\ Cont(b[3]) /\ Cont(b[4])
            /\ (b[1] = 240 => b[2] >= 144)
            /\ (b[1] = 244 => b[2] <= 143)
            /\ Utf8Valid(Rest(4))
  ELSE FALSE

\* The length of the well-formed UTF-8 sequence b starts with, 0 when it starts
\* with none.
Utf8CharLen(b) ==
  LET n == Len(b) IN
  IF n = 0 THEN 0
  ELSE IF b[1] <= 127 THEN 1
  ELSE IF b[1] >= 194 /\ b[1] <= 223
       THEN IF n >= 2 /\ Cont(b[2]) THEN 2 ELSE 0
  ELSE IF b[1] >= 224 /\ b[1] <= 239
       THEN IF /\ n >= 3
               /\ Cont(b[2]) /\ Cont(b[3])
               /\ (b[1] = 224 => b[2] >= 160)
               /\ (b[1] = 237 => b[2] <= 159)
            THEN 3 ELSE 0
  ELSE IF b[1] >= 240 /\ b[1] <= 244
       THEN IF /\ n >= 4
               /\ Cont(b[2]) /\ Cont(b[3]) /\ Cont(b[4])
               /\ (b[1] = 240 => b[2] >= 144)
               /\ (b[1] = 244 => b[2] <= 143)
            THEN 4 ELSE 0
  ELSE 0

\* Utf8Error::valid_up_to() of core::str::from_utf8(b): the length of the
\* longest well-formed prefix of b.
RECURSIVE valid_up_to(_)
valid_up_to(b) ==
  LET k == Utf8CharLen(b) IN
  IF k = 0 THEN 0 ELSE k + valid_up_to(SubSeq(b, k + 1, Len(b)))

StringTypes == {"String", "Box<str>", "Arc<str>"}

Str(ty, data) == [ty |-> ty, data |-> data]

\* "", "\u{e9}!", "h" (the payload is the text's UTF-8 bytes)
StringValues == {Str("String", <<>>), Str("Box<str>", <<195, 169, 33>>),
                 Str("Arc<str>", <<104>>)}

String_encoded_len(v) == encoded_bytes_len(v.data)

String_encode(v, dst) ==
  LET r == encode_bytes(v.data, dst) IN
  IF r.kind = "Ok" THEN r ELSE EncErr("EncodeBufferTooSmall", r.buf)

\* A decode that validates the bytes after the header before it looks whether
\* the frame is complete; used to test that the order of the two checks is
\* observable.
String_decode_validate_first(ty, src) ==
  LET r == decode_bytes(src)
      present == SubSeq(src, MESSAGE_SIZE_LEN + 1, Len(src)) IN
  IF Len(src) >= MESSAGE_SIZE_LEN /\ r.kind # "Ok" /\ ~Utf8Valid(present)
  THEN DecErr("Utf8Error", valid_up_to(present))
  ELSE IF r.kind # "Ok" THEN DecErr("NotEnoughBytes", 0)
  ELSE IF Utf8Valid(r.data) THEN DecOk(r.n, Str(ty, r.data))
  ELSE DecErr("Utf8Error", valid_up_to(r.data))

\* The Utf8Error variant carries the error of from_utf8; its valid_up_to is kept.
String_decode(ty, src) ==
  LET r == decode_bytes(src) IN
  IF r.kind # "Ok" THEN DecErr("NotEnoughBytes", 0)
  ELSE IF Utf8Valid(r.data) THEN DecOk(r.n, Str(ty, r.data))
  ELSE DecErr("Utf8Error", valid_up_to(r.data))

-----------------------------------------------------------------------------
(* Untagged addresses: impl_socket_addr and impl_addr *)

ADDR_V4_ENCODED_SIZE == 4
ADDR_V6_ENCODED_SIZE == 16
PORT_SIZE == 2

AddrSize(ty) ==
  IF ty \in {"SocketAddrV4", "Ipv4Addr"} THEN ADDR_V4_ENCODED_SIZE
  ELSE ADDR_V6_ENCODED_SIZE

SocketTypes == {"SocketAddrV4", "SocketAddrV6"}

\* SocketAddrV4 has no flowinfo or scope_id: both are 0 in its record.
Sock(ty, octets, port, flowinfo, scope_id) ==
  [ty |-> ty, octets |-> octets, port |-> port,
   flowinfo |-> flowinfo, scope_id |-> scope_id]

\* FromIP::from: SocketAddrV4::new(ip, port) and SocketAddrV6::new(ip, port, 0, 0).
FromIP(ty, ip, port) == Sock(ty, ip, port, 0, 0)

SocketValues ==
  {Sock("SocketAddrV4", o, 8080, 0, 0) : o \in V4Octets}
  \cup {Sock("SocketAddrV6", o, 443, 0, 0) : o \in V6Octets}
  \cup {Sock("SocketAddrV6", o, 65535, 7, 2) : o \in V6Octets}

Socket_encoded_len(v) == AddrSize(v.ty) + PORT_SIZE

Socket_encode(v, dst) ==
  LET encoded_len == Socket_encoded_len(v) IN
  IF Len(dst) < encoded_len
  THEN EncErr("EncodeBufferTooSmall", dst)
  ELSE LET ip == CopyInto(dst, 0, v.octets) IN
       EncOk(encoded_len, CopyInto(ip, AddrSize(v.ty), BE(v.port, PORT_SIZE)))

Socket_decode(ty, src) ==
  LET addr_size == AddrSize(ty) IN
  IF Len(src) < addr_size + PORT_SIZE
  THEN DecErr("Corrupted", 0)
  ELSE LET ip == Slice(src, 0, addr_size)
           port == FromBE(Slice(src, addr_size, addr_size + PORT_SIZE)) IN
       DecOk(addr_size + PORT_SIZE, FromIP(ty, ip, port))

AddrTypes == {"Ipv4Addr", "Ipv6Addr"}

Addr(ty, octets) == [ty |-> ty, octets |-> octets]

AddrValues == {Addr("Ipv4Addr", o) : o \in V4Octets}
              \cup {Addr("Ipv6Addr", o) : o \in V6Octets}

\* AddrTransformError::from_bytes_error
from_bytes_error(e) ==
  IF e = "EncodeBufferTooSmall" THEN "EncodeBufferTooSmall" ELSE "Corrupted"

Addr_encoded_len(v) == AddrSize(v.ty)

Addr_encode(v, dst) ==
  LET r == ArrayN_encode(v.octets, dst) IN
  IF r.kind = "Ok" THEN r ELSE EncErr(from_bytes_error(r.err), r.buf)

Addr_decode(ty, src) ==
  LET r == ArrayN_decode(AddrSize(ty), src) IN
  IF r.kind = "Ok" THEN DecOk(r.n, Addr(ty, r.data))
  ELSE DecErr(from_bytes_error(r.err), 0)

-----------------------------------------------------------------------------
(* Durations and clock readings: a (seconds, nanoseconds) pair with           *)
(* 0 <= nanos < NANOS_PER_SEC, as core::time::Duration and the Timespec       *)
(* behind SystemTime and Instant keep it.  A SystemTime is its offset from    *)
(* UNIX_EPOCH (seconds negative before the epoch).                            *)

NANOS_PER_SEC == 1000000000

\* size_of::<u64>() and size_of::<u32>(): the two fields of the wire form.
SECS_SIZE == 8
NANOS_SIZE == 4
ENCODED_LEN == SECS_SIZE + NANOS_SIZE

Ts(secs, nanos) == [secs |-> secs, nanos |-> nanos]

UNIX_EPOCH == Ts(0, 0)

\* Duration::new(secs, nanos): nanoseconds beyond a second carry into seconds.
Duration_new(secs, nanos) ==
  Ts(secs + nanos \div NANOS_PER_SEC, nanos % NANOS_PER_SEC)

TsLe(a, b) == a.secs < b.secs \/ (a.secs = b.secs /\ a.nanos <= b.nanos)

\* a + d for a reading or duration a and a duration d.
TsAdd(a, d) ==
  IF a.nanos + d.nanos >= NANOS_PER_SEC
  THEN Ts(a.secs + d.secs + 1, a.nanos + d.nanos - NANOS_PER_SEC)
  ELSE Ts(a.secs + d.secs, a.nanos + d.nanos)

\* a - b: the duration between two readings when b <= a; a reading minus a duration.
TsSub(a, b) ==
  IF a.nanos >= b.nanos
  THEN Ts(a.secs - b.secs, a.nanos - b.nanos)
  ELSE Ts(a.secs - b.secs - 1, a.nanos + NANOS_PER_SEC - b.nanos)

\* SystemTime::duration_since(earlier): Ok(duration) or Err(SystemTimeError).
duration_since(t, earlier) ==
  IF TsLe(earlier, t) THEN [d |-> TsSub(t, earlier), ok |-> TRUE]
  ELSE [d |-> TsSub(earlier, t), ok |-> FALSE]

encode_duration_unchecked(dur) ==
  BE(dur.secs, SECS_SIZE) \o BE(dur.nanos, NANOS_SIZE)

decode_duration_unchecked(src) ==
  [n |-> ENCODED_LEN,
   d |-> Duration_new(FromBE(Slice(src, 0, SECS_SIZE)),
                      FromBE(Slice(src, SECS_SIZE, ENCODED_LEN)))]

Dur(d) == [ty |-> "Duration", secs |-> d.secs, nanos |-> d.nanos]
SysTime(t) == [ty |-> "SystemTime", secs |-> t.secs, nanos |-> t.nanos]
Inst(t) == [ty |-> "Instant", secs |-> t.secs, nanos |-> t.nanos]
TsOf(v) == Ts(v.secs, v.nanos)

DurationValues == {Dur(Ts(10, 1080)), Dur(Ts(258, 999999999))}

\* The last one is half a second before the epoch.
SystemTimeValues == {SysTime(Ts(10, 1080)), SysTime(Ts(-1, 500000000))}

Duration_encode(v, dst) ==
  IF Len(dst) < ENCODED_LEN
  THEN EncErr("EncodeBufferTooSmall", dst)
  ELSE EncOk(ENCODED_LEN, CopyInto(dst, 0, encode_duration_unchecked(TsOf(v))))

Duration_decode(src) ==
  IF Len(src) < ENCODED_LEN
  THEN DecErr("Corrupted", 0)
  ELSE LET r == decode_duration_unchecked(src) IN DecOk(r.n, Dur(r.d))

\* SystemTime::encode is declared as returning Result<(), Self::Error>.
SystemTime_encode(v, dst) ==
  IF Len(dst) < ENCODED_LEN
  THEN EncErr("EncodeBufferTooSmall", dst)
  ELSE LET since == duration_since(TsOf(v), UNIX_EPOCH) IN
       IF ~since.ok THEN EncErr("InvalidSystemTime", dst)
       ELSE EncUnit(CopyInto(dst, 0, encode_duration_unchecked(since.d)))

SystemTime_decode(src) ==
  IF Len(src) < ENCODED_LEN
  THEN DecErr("Corrupted", 0)
  ELSE LET r == decode_duration_unchecked(src) IN
       DecOk(r.n, SysTime(TsAdd(UNIX_EPOCH, r.d)))

-----------------------------------------------------------------------------
(* The clock anchor: init, encode_instant_to_duration,                        *)
(* decode_instant_from_duration, impl Transformable for Instant               *)

\* The OnceLock ONCE: its state ("incomplete", "running" while one caller's
\* closure runs, "complete") and, once complete, the (SystemTime, Instant) pair.
NoAnchor ==
  [state |-> "incomplete", system_now |-> UNIX_EPOCH, instant_now |-> UNIX_EPOCH]

\* The closure of get_or_init: SystemTime::now() paired with init's argument.
init_closure(wallclock, now) ==
  [state |-> "complete", system_now |-> wallclock, instant_now |-> now]

\* init(now) called by one thread with no other call in progress: the pair
\* it returns, which is also the OnceLock's content afterwards.
init(cell, wallclock, now) ==
  IF cell.state = "complete" THEN cell ELSE init_closure(wallclock, now)

\* The Duration returned for `instant` under the pair init returned.
\* duration_since(UNIX_EPOCH).unwrap() aborts for a wall clock before the epoch.
encode_instant_to_duration(pair, instant) ==
  LET since == duration_since(pair.system_now, UNIX_EPOCH) IN
  IF TsLe(instant, pair.instant_now)
  THEN TsAdd(since.d, TsSub(pair.instant_now, instant))
  ELSE TsAdd(since.d, TsSub(instant, pair.instant_now))

\* The Instant returned for `duration` under the pair init returned.
decode_instant_from_duration(pair, duration) ==
  LET system_time == TsAdd(UNIX_EPOCH, duration) IN
  IF TsLe(pair.system_now, system_time)
  THEN TsAdd(pair.instant_now, duration_since(system_time, pair.system_now).d)
  ELSE TsSub(pair.instant_now, duration_since(pair.system_now, system_time).d)

\* Instant::encode: [res, cell], the outcome and the OnceLock's content after it.
Instant_encode(v, dst, cell, wallclock) ==
  IF Len(dst) < ENCODED_LEN
  THEN [cell |-> cell, res |-> EncErr("EncodeBufferTooSmall", dst)]
  ELSE LET pair == init(cell, wallclock, TsOf(v))
           buf == encode_duration_unchecked(encode_instant_to_duration(pair, TsOf(v))) IN
       [cell |-> pair, res |-> EncOk(ENCODED_LEN, CopyInto(dst, 0, buf))]

\* Instant::decode: init is given Instant::now(), the monotonic clock's value.
Instant_decode(src, cell, wallclock, monoclock) ==
  IF Len(src) < ENCODED_LEN
  THEN [cell |-> cell, res |-> DecErr("NotEnoughBytes", 0)]
  ELSE LET r == decode_duration_unchecked(src)
           pair == init(cell, wallclock, monoclock) IN
       [cell |-> pair,
        res |-> DecOk(r.n, Inst(decode_instant_from_duration(pair, r.d)))]

-----------------------------------------------------------------------------
(* The varint codec of utils.rs.  A u64 is four 16-bit limbs, least           *)
(* significant first, so that all 64 bits are kept.                           *)

LIMB == 256 * 256

U64(n) == <<n % LIMB, n \div LIMB, 0, 0>>

U64_MAX == <<LIMB - 1, LIMB - 1, LIMB - 1, LIMB - 1>>

\* 2^63
U64_TOP == <<0, 0, 0, 32768>>

\* x >= 0x80
GeContinuation(x) == x[4] # 0 \/ x[3] # 0 \/ x[2] # 0 \/ x[1] >= 128

\* x as u8
LowByte(x) == x[1] % 256

\* x >> 7
Shr7(x) ==
  [i \in 1..4 |-> x[i] \div 128 + (IF i < 4 THEN (x[i + 1] % 128) * 512 ELSE 0)]

\* x | 1
Or1(x) == [x EXCEPT ![1] = IF x[1] % 2 = 0 THEN x[1] + 1 ELSE x[1]]

RECURSIVE BitLen(_)
BitLen(n) == IF n = 0 THEN 0 ELSE 1 + BitLen(n \div 2)

\* u64::leading_zeros
leading_zeros(x) ==
  IF x[4] # 0 THEN 16 - BitLen(x[4])
  ELSE IF x[3] # 0 THEN 32 - BitLen(x[3])
  ELSE IF x[2] # 0 THEN 48 - BitLen(x[2])
  ELSE 64 - BitLen(x[1])

\* a ^ b on naturals
RECURSIVE Xor(_, _)
Xor(a, b) ==
  IF a = 0 /\ b = 0 THEN 0
  ELSE 2 * Xor(a \div 2, b \div 2) + (IF a % 2 = b % 2 THEN 0 ELSE 1)

\* encoded_len_varint without the | 1: zero then has the leading zeros of 0.
\* Used to test that the length of zero is observed.
encoded_len_varint_no_or(value) ==
  ((Xor(leading_zeros(value), 63) * 9) + 73) \div 64

encoded_len_varint(value) ==
  ((Xor(leading_zeros(Or1(value)), 63) * 9) + 73) \div 64

\* The while loop of encode_varint from (x, i, buf), then the final store.
\* buf[i] = ... with i = buf.len() is an out-of-bounds index: the call aborts.
RECURSIVE encode_varint_from(_, _, _)
encode_varint_from(x, i, buf) ==
  IF GeContinuation(x)
  THEN IF i >= Len(buf)
       THEN EncErr("BufferTooSmall", buf)
       ELSE encode_varint_from(Shr7(x), i + 1,
                               [buf EXCEPT ![i + 1] = (LowByte(x) % 128) + 128])
  ELSE IF i >= Len(buf)
       THEN EncPanic(buf)
       ELSE EncOk(i + 1, [buf EXCEPT ![i + 1] = LowByte(x)])

encode_varint(x, buf) == encode_varint_from(x, 0, buf)

\* a | b on naturals
RECURSIVE Or(_, _)
Or(a, b) ==
  IF a = 0 /\ b = 0 THEN 0
  ELSE 2 * Or(a \div 2, b \div 2) + (IF a % 2 = 1 \/ b % 2 = 1 THEN 1 ELSE 0)

RECURSIVE Pow2(_)
Pow2(k) == IF k = 0 THEN 1 ELSE 2 * Pow2(k - 1)

\* A shift-and-or that drops the part crossing into the next limb.  Used to
\* test that the decoded value is observed.
OrShl_within_limb(x, g, s) ==
  LET at == (s \div 16) + 1
      shifted == g * Pow2(s % 16) IN
  [i \in 1..Len(x) |-> IF i = at THEN Or(x[i], shifted % LIMB) ELSE x[i]]

\* x | (g as u64) << s for a byte g and s < 64, on a value of Len(x) limbs:
\* the bits shifted past the last limb are dropped, as << drops them.
OrShl(x, g, s) ==
  LET at == (s \div 16) + 1
      shifted == g * Pow2(s % 16) IN
  [i \in 1..Len(x) |->
     IF i = at THEN Or(x[i], shifted % LIMB)
     ELSE IF i = at + 1 THEN Or(x[i], shifted \div LIMB)
     ELSE x[i]]

Varint(x) == [ty |-> "varint", x |-> x]

\* decode_varint without the test of the tenth byte's value bits.  Used to
\* test that the overflow of the tenth group is observed.
RECURSIVE decode_varint_unchecked_from(_, _, _, _)
decode_varint_unchecked_from(x, s, i, buf) ==
  IF i = 10 THEN DecErr("Overflow", 0)
  ELSE IF i >= Len(buf) THEN DecErr("NotEnoughBytes", 0)
  ELSE LET b == buf[i + 1] IN
       IF b < 128
       THEN DecOk(i + 1, Varint(OrShl(x, b, s)))
       ELSE decode_varint_unchecked_from(OrShl(x, b % 128, s), s + 7, i + 1, buf)

\* The loop of decode_varint from (x, s, i).
RECURSIVE decode_varint_from(_, _, _, _)
decode_varint_from(x, s, i, buf) ==
  IF i = 10 THEN DecErr("Overflow", 0)
  ELSE IF i >= Len(buf) THEN DecErr("NotEnoughBytes", 0)
  ELSE LET b == buf[i + 1] IN
       IF b < 128
       THEN IF i = 10 - 1 /\ b > 1
            THEN DecErr("Overflow", 0)
            ELSE DecOk(i + 1, Varint(OrShl(x, b, s)))
       ELSE decode_varint_from(OrShl(x, b % 128, s), s + 7, i + 1, buf)

\* decode_varint of the source with a zero byte put after it: the end of the
\* source then ends the value.  Used to test that a source that ends early
\* is observed.
decode_varint_zero_ended(buf) == decode_varint_from(U64(0), 0, 0, buf \o <<0>>)

decode_varint(buf) == decode_varint_from(U64(0), 0, 0, buf)

VarintValues ==
  {U64(0), U64(127), U64(128), U64(300), U64(16384), U64(2147483647),
   U64_TOP, U64_MAX}

-----------------------------------------------------------------------------
(* The contract, by type: encoded_len, encode, decode, encode_to_vec *)

PureTypes ==
  {"IpAddr", "Duration", "SystemTime"} \cup NumTypes \cup ArrayTypes
  \cup BytesTypes \cup StringTypes \cup SocketTypes \cup AddrTypes

\* The values of the types whose codec reads no state of the process.
Values ==
  IpAddrValues \cup NumValues \cup ArrayValues \cup BytesValues \cup StringValues
  \cup SocketValues \cup AddrValues \cup DurationValues \cup SystemTimeValues

encoded_len(v) ==
  CASE v.ty = "IpAddr"      -> IpAddr_encoded_len(v)
    [] v.ty \in NumTypes    -> Num_encoded_len(v)
    [] v.ty \in ArrayTypes  -> Array_encoded_len(v)
    [] v.ty \in BytesTypes  -> Bytes_encoded_len(v)
    [] v.ty \in StringTypes -> String_encoded_len(v)
    [] v.ty \in SocketTypes -> Socket_encoded_len(v)
    [] v.ty \in AddrTypes   -> Addr_encoded_len(v)
    [] v.ty \in {"Duration", "SystemTime", "Instant"} -> ENCODED_LEN

encode(v, dst) ==
  CASE v.ty = "IpAddr"      -> IpAddr_encode(v, dst)
    [] v.ty \in NumTypes    -> Num_encode(v, dst)
    [] v.ty \in ArrayTypes  -> Array_encode(v, dst)
    [] v.ty \in BytesTypes  -> Bytes_encode(v, dst)
    [] v.ty \in StringTypes -> String_encode(v, dst)
    [] v.ty \in SocketTypes -> Socket_encode(v, dst)
    [] v.ty \in AddrTypes   -> Addr_encode(v, dst)
    [] v.ty = "Duration"    -> Duration_encode(v, dst)
    [] v.ty = "SystemTime"  -> SystemTime_encode(v, dst)

decode(ty, src) ==
  CASE ty = "IpAddr"      -> IpAddr_decode(src)
    [] ty \in NumTypes    -> Num_decode(ty, src)
    [] ty \in ArrayTypes  -> Array_decode(ty, src)
    [] ty \in BytesTypes  -> Bytes_decode(ty, src)
    [] ty \in StringTypes -> String_decode(ty, src)
    [] ty \in SocketTypes -> Socket_decode(ty, src)
    [] ty \in AddrTypes   -> Addr_decode(ty, src)
    [] ty = "Duration"    -> Duration_decode(src)
    [] ty = "SystemTime"  -> SystemTime_decode(src)

\* Transformable::encode_to_vec: encode into vec![0u8; encoded_len].
encode_to_vec(v) == encode(v, Fill(0, encoded_len(v)))

Succeeded(r) == r.kind \in {"Ok", "OkUnit"}

-----------------------------------------------------------------------------
(* The inputs of the calls *)

\* Destinations of every length up to MaxPad bytes beyond encoded_len.
Dsts(n) == {Fill(f, k) : f \in FillBytes, k \in 0..(n + MaxPad)}

Prefixes(b) == {SubSeq(b, 1, k) : k \in 0..Len(b)}

\* Sources: every prefix of a value's encoding followed by MaxPad further bytes.
Framed(ty) ==
  {encode_to_vec(v).buf \o Fill(170, MaxPad) :
     v \in {w \in Values : w.ty = ty /\ Succeeded(encode_to_vec(w))}}

\* For a tagged address also the tag, the octets and nothing else (the 5- and
\* 17-byte forms), and tags that name no family.
TaggedOnly ==
  {<<4>> \o o \o Fill(170, MaxPad) : o \in V4Octets}
  \cup {<<6>> \o o \o Fill(170, MaxPad) : o \in V6Octets}
  \cup {<<5, 127, 0, 0, 1, 0, 0>>, <<0>> \o Fill(0, 18 + MaxPad)}

\* Text frames whose payload is not UTF-8: a byte no sequence contains, a lead
\* byte followed by a non-continuation byte, a continuation byte after valid
\* text, and a sequence cut short by the end of the payload.
MalformedText ==
  {BE(Len(d), MESSAGE_SIZE_LEN) \o d \o Fill(170, MaxPad) :
     d \in {<<255, 254>>, <<195, 40, 65>>, <<104, 105, 128>>, <<226, 130>>}}

Srcs(ty) ==
  UNION {Prefixes(b) : b \in Framed(ty) \cup (IF ty = "IpAddr" THEN TaggedOnly ELSE {})
                               \cup (IF ty \in StringTypes THEN MalformedText ELSE {})}

-----------------------------------------------------------------------------
(* The clocks *)

\* Clock ticks a run takes.
MaxTicks == 1

Mono0 == Ts(100, 800000000)
Wall0 == Ts(1000, 300000000)
TickStep == Ts(0, 400000000)

RECURSIVE After(_, _)
After(t, k) == IF k = 0 THEN t ELSE TsAdd(After(t, k - 1), TickStep)

\* Readings of the monotonic clock: the values Instant::now() returns in a run.
InstantValues == {Inst(After(Mono0, k)) : k \in 0..MaxTicks}

\* The readings a caller can hold when the monotonic clock shows m: those
\* Instant::now() has returned so far.
Readings(m) == {v \in InstantValues : TsLe(TsOf(v), m)}

\* Timestamps received from a peer: around the wall clock's values.
PeerDurations == {TsSub(Wall0, TickStep)} \cup {After(Wall0, k) : k \in 0..MaxTicks}

InstantSrcs ==
  UNION {Prefixes(encode_duration_unchecked(d) \o Fill(170, MaxPad)) : d \in PeerDurations}

VarintBufs == Dsts(10)

\* 2^k and 2^k - 1 for k < 64.
Bit64(k) == OrShl(U64(0), 1, k)
LowOnes(k) ==
  [i \in 1..4 |->
     LET r == k - 16 * (i - 1) IN
     IF r >= 16 THEN LIMB - 1 ELSE IF r <= 0 THEN 0 ELSE Pow2(r) - 1]

\* The values of tests::roundtrip_u64: both sides of every length boundary.
VarintRoundTripValues ==
  VarintValues \cup {Bit64(7 * k) : k \in 1..9} \cup {LowOnes(7 * k) : k \in 1..9}

\* Sources of decode_varint: runs of continuation bytes on both sides of ten,
\* nine continuation bytes and a tenth byte of each kind, with and without a
\* byte after it, and short encodings (one of them not the shortest).
VarintSrcs ==
  Prefixes(Fill(128, 11))
  \cup {Fill(h, 9) \o <<t>> \o pad :
          h \in {128, 255}, t \in {0, 1, 2, 127, 128, 255}, pad \in {<<>>, <<1>>}}
  \cup {<<0>>, <<127>>, <<172, 2>>, <<172, 2, 170>>, <<128, 0>>, <<255, 255, 255>>}

\* The calls of decode_varint and of tests::check with their outcomes.
DecodeVarintCalls == {<<src, decode_varint(src)>> : src \in VarintSrcs}
RoundTripVarintCalls ==
  {<<x, encode_varint(x, Fill(0, 16)),
     decode_varint(SubSeq(encode_varint(x, Fill(0, 16)).buf, 1,
                          encode_varint(x, Fill(0, 16)).n))>> :
     x \in VarintRoundTripValues}

\* The (value, destination) and (type, source) pairs of the calls.
EncodeInputs == UNION {{<<v, dst>> : dst \in Dsts(encoded_len(v))} : v \in Values}
DecodeInputs == UNION {{<<ty, src>> : src \in Srcs(ty)} : ty \in PureTypes}
InstantDsts == Dsts(ENCODED_LEN)

-----------------------------------------------------------------------------
(* The trait's default stream methods (lib.rs) *)

MAX_INLINED_BYTES == 256

\* What a stream call did besides its result: the buffer it built the frame in
\* ("inline": the fixed local array, "heap": a vector) and its capacity, the
\* sizes of the reads it issued, the bytes it took from the stream, the sizes
\* of the write_all calls it issued, and the io::ErrorKind it failed with.
Io(path, cap, reads, consumed, err) ==
  [err |-> err, path |-> path, cap |-> cap, reads |-> reads, consumed |-> consumed,
   writes |-> <<>>]

\* The same for a call that writes.
IoW(path, cap, writes, err) ==
  [err |-> err, path |-> path, cap |-> cap, reads |-> <<>>, consumed |-> 0,
   writes |-> writes]

\* Read::read_exact of n bytes from the stream s: the bytes, or UnexpectedEof.
read_exact(s, n) ==
  IF Len(s) >= n
  THEN [bytes |-> SubSeq(s, 1, n), ok |-> TRUE, rest |-> SubSeq(s, n + 1, Len(s))]
  ELSE [bytes |-> <<>>, ok |-> FALSE, rest |-> <<>>]

\* The default decode_from_reader and decode_from_async_reader of a type ty.
\* msg_len is the header's value; the body read fills buf[4..msg_len], which
\* is an invalid range when msg_len < 4: the call aborts.
decode_from_reader(ty, s) ==
  LET len == read_exact(s, MESSAGE_SIZE_LEN)
      msg_len == FromBE(len.bytes)
      path == IF msg_len <= MAX_INLINED_BYTES THEN "inline" ELSE "heap"
      cap == IF msg_len <= MAX_INLINED_BYTES THEN MAX_INLINED_BYTES ELSE msg_len
      body == read_exact(len.rest, msg_len - MESSAGE_SIZE_LEN)
      r == decode(ty, len.bytes \o body.bytes) IN
  IF ~len.ok
  THEN [res |-> DecErr("io", 0),
        io |-> Io("none", 0, <<MESSAGE_SIZE_LEN>>, 0, "UnexpectedEof")]
  ELSE IF msg_len < MESSAGE_SIZE_LEN
  THEN [res |-> DecPanic,
        io |-> Io(path, cap, <<MESSAGE_SIZE_LEN>>, MESSAGE_SIZE_LEN, "")]
  ELSE IF ~body.ok
  THEN [res |-> DecErr("io", 0),
        io |-> Io(path, cap, <<MESSAGE_SIZE_LEN, msg_len - MESSAGE_SIZE_LEN>>,
                  MESSAGE_SIZE_LEN, "UnexpectedEof")]
  ELSE [res |-> r,
        io |-> Io(path, cap, <<MESSAGE_SIZE_LEN, msg_len - MESSAGE_SIZE_LEN>>,
                  msg_len, IF r.kind = "Err" THEN "InvalidData" ELSE "")]

\* Payload lengths beyond what a sequence of the model can hold, as usize
\* values of a 64-bit target (four 16-bit limbs, least significant first).
\* src_len as u32 keeps the low 32 bits.
as_u32(x) == <<x[1], x[2], 0, 0>>

\* NetworkEndian::write_u32 of a value below 2^32.
write_u32(x) == <<x[2] \div 256, x[2] % 256, x[1] \div 256, x[1] % 256>>

\* The header encode_bytes, encode_bytes_to and encode_bytes_to_async write for
\* a payload of src_len bytes (in a destination that is long enough).
frame_header(src_len) == write_u32(as_u32(src_len))

\* 2^32 - 1, 2^32 and 2^32 + 5 bytes, and two lengths below them.
LongLens == {U64(11), U64(LIMB + 1), <<LIMB - 1, LIMB - 1, 0, 0>>,
             <<0, 0, 1, 0>>, <<5, 0, 1, 0>>}

\* A tagged stream decoder that issues the second read whatever the tag is: the
\* 4-octet form then swallows 12 bytes of what follows it.  Used to test that
\* the read pattern is observed.
IpAddr_decode_from_reader_two_reads(s) ==
  LET first == read_exact(s, MIN_ENCODED_LEN)
      remaining == read_exact(first.rest, V6_ENCODED_LEN - MIN_ENCODED_LEN) IN
  IF ~first.ok \/ ~remaining.ok
  THEN [res |-> DecErr("io", 0),
        io |-> Io("none", 0, <<MIN_ENCODED_LEN>>, 0, "UnexpectedEof")]
  ELSE IF first.bytes[1] = 4
  THEN [res |-> DecOk(MIN_ENCODED_LEN, IpV4(SubSeq(first.bytes, 2, 5))),
        io |-> Io("none", 0, <<MIN_ENCODED_LEN, V6_ENCODED_LEN - MIN_ENCODED_LEN>>,
                  V6_ENCODED_LEN, "")]
  ELSE IF first.bytes[1] = 6
  THEN [res |-> DecOk(V6_ENCODED_LEN,
                      IpV6(SubSeq(first.bytes, 2, 5) \o remaining.bytes)),
        io |-> Io("none", 0, <<MIN_ENCODED_LEN, V6_ENCODED_LEN - MIN_ENCODED_LEN>>,
                  V6_ENCODED_LEN, "")]
  ELSE [res |-> DecErr("UnknownAddressFamily", first.bytes[1]),
        io |-> Io("none", 0, <<MIN_ENCODED_LEN>>, MIN_ENCODED_LEN, "InvalidData")]


\* IpAddr::decode_from_reader and decode_from_async_reader on a reader over s:
\* a read of MIN_ENCODED_LEN bytes, then for tag 6 one of the remaining 12.
IpAddr_decode_from_reader(s) ==
  LET first == read_exact(s, MIN_ENCODED_LEN)
      remaining == read_exact(first.rest, V6_ENCODED_LEN - MIN_ENCODED_LEN) IN
  IF ~first.ok
  THEN [res |-> DecErr("io", 0),
        io |-> Io("none", 0, <<MIN_ENCODED_LEN>>, 0, "UnexpectedEof")]
  ELSE IF first.bytes[1] = 4
  THEN [res |-> DecOk(MIN_ENCODED_LEN, IpV4(SubSeq(first.bytes, 2, 5))),
        io |-> Io("none", 0, <<MIN_ENCODED_LEN>>, MIN_ENCODED_LEN, "")]
  ELSE IF first.bytes[1] = 6
  THEN IF ~remaining.ok
       THEN [res |-> DecErr("io", 0),
             io |-> Io("none", 0, <<MIN_ENCODED_LEN, V6_ENCODED_LEN - MIN_ENCODED_LEN>>,
                       MIN_ENCODED_LEN, "UnexpectedEof")]
       ELSE [res |-> DecOk(V6_ENCODED_LEN,
                           IpV6(SubSeq(first.bytes, 2, 5) \o remaining.bytes)),
             io |-> Io("none", 0, <<MIN_ENCODED_LEN, V6_ENCODED_LEN - MIN_ENCODED_LEN>>,
                       V6_ENCODED_LEN, "")]
  ELSE [res |-> DecErr("UnknownAddressFamily", first.bytes[1]),
        io |-> Io("none", 0, <<MIN_ENCODED_LEN>>, MIN_ENCODED_LEN, "InvalidData")]

IpAddrReaderCalls == {<<s, IpAddr_decode_from_reader(s)>> : s \in Srcs("IpAddr")}

\* Types taken to keep the default stream methods, and the streams read.
DefaultTypes == {"u32", "Box<str>", "Box<[u8]>"}
ReaderInputs == {in \in DecodeInputs : in[1] \in DefaultTypes}

\* The sinks written to: a Vec, which accepts every write_all, and a sink
\* whose write_all fails with BrokenPipe.
Sinks == {"ok", "broken"}

\* A write_all that is called again after the sink failed; used to test that
\* the number of calls made on a failing sink is observed.
write_all_retrying(writer, bytes, n, path, cap) ==
  IF writer = "ok"
  THEN [bytes |-> bytes, res |-> EncOk(n, <<>>),
        io |-> IoW(path, cap, <<Len(bytes)>>, "")]
  ELSE [bytes |-> <<>>, res |-> EncErr("io", <<>>),
        io |-> IoW(path, cap, <<Len(bytes), Len(bytes)>>, "BrokenPipe")]

\* writer.write_all(bytes).map(|_| n) from a buffer of the given kind and
\* capacity: one call, whose error is the method's error.
write_all(writer, bytes, n, path, cap) ==
  IF writer = "ok"
  THEN [bytes |-> bytes, res |-> EncOk(n, <<>>),
        io |-> IoW(path, cap, <<Len(bytes)>>, "")]
  ELSE [bytes |-> <<>>, res |-> EncErr("io", <<>>),
        io |-> IoW(path, cap, <<Len(bytes)>>, "BrokenPipe")]

\* The default writer with the inline test len < MAX_INLINED_BYTES: a frame of
\* exactly 256 bytes then goes to the heap.  Used to test that the boundary
\* property depends on the comparison.
encode_to_writer_strict(v, writer) ==
  LET len == encoded_len(v)
      inline == len < MAX_INLINED_BYTES
      cap == IF inline THEN MAX_INLINED_BYTES ELSE len
      e == encode(v, Fill(0, cap)) IN
  write_all(writer, SubSeq(e.buf, 1, len), e.n, IF inline THEN "inline" ELSE "heap", cap)

\* The default encode_to_writer and encode_to_async_writer of a value v: the
\* bytes the sink took, the result, and what the call did.  A failure of
\* encode is returned as InvalidData before anything is written.
encode_to_writer(v, writer) ==
  LET len == encoded_len(v)
      inline == len <= MAX_INLINED_BYTES
      cap == IF inline THEN MAX_INLINED_BYTES ELSE len
      e == encode(v, Fill(0, cap)) IN
  IF e.kind = "Err"
  THEN [bytes |-> <<>>, res |-> EncErr(e.err, <<>>),
        io |-> IoW(IF inline THEN "inline" ELSE "heap", cap, <<>>, "InvalidData")]
  ELSE write_all(writer, SubSeq(e.buf, 1, len), e.n,
                 IF inline THEN "inline" ELSE "heap", cap)

\* impls::encode_bytes_to and encode_bytes_to_async: the stream form of a
\* length-delimited frame.
encode_bytes_to(src, dst) ==
  LET len == Len(src)
      inline == len + MESSAGE_SIZE_LEN <= MAX_INLINED_BYTES
      cap == IF inline THEN MAX_INLINED_BYTES ELSE MESSAGE_SIZE_LEN + len
      hdr == CopyInto(Fill(0, cap), 0, BE(len, MESSAGE_SIZE_LEN))
      b == CopyInto(hdr, MESSAGE_SIZE_LEN, src) IN
  write_all(dst, SubSeq(b, 1, MESSAGE_SIZE_LEN + len), MESSAGE_SIZE_LEN + len,
            IF inline THEN "inline" ELSE "heap", cap)

\* Payloads whose frames lie on both sides of MAX_INLINED_BYTES.
BoundaryValues ==
  {Bytes("Box<[u8]>", Fill(7, MAX_INLINED_BYTES - MESSAGE_SIZE_LEN + k)) : k \in 0..1}
  \cup {Str("Box<str>", Fill(97, MAX_INLINED_BYTES - MESSAGE_SIZE_LEN + k)) : k \in 0..1}

WriterValues == {v \in Values : v.ty \in DefaultTypes} \cup BoundaryValues
FrameValues == BytesValues \cup StringValues \cup BoundaryValues

\* The stream calls with their outcomes (the methods are pure functions of
\* their arguments).
WriterCalls == {<<v, encode_to_writer(v, "ok")>> : v \in WriterValues}
FrameCalls == {<<v, encode_bytes_to(v.data, "ok")>> : v \in FrameValues}
ReaderCalls == {<<in[1], in[2], decode_from_reader(in[1], in[2])>> : in \in ReaderInputs}

-----------------------------------------------------------------------------
(* The stream methods each type defines for itself *)

\* impl_number_based_id: writer.write_all(self.to_network_endian().as_ref()).
Num_encode_to_writer(v, writer) ==
  write_all(writer, to_network_endian(v.ty, v.n), SizeOf(v.ty), "none", 0)

\* [u8; N]: dst.write_all(self).map(|_| N).
Array_encode_to_writer(v, dst) == write_all(dst, v.data, Len(v.data), "none", 0)

\* impl_bytes and impl_string: encode_bytes_to(self.as_ref(), dst).
Bytes_encode_to_writer(v, dst) == encode_bytes_to(v.data, dst)

String_encode_to_writer(v, dst) == encode_bytes_to(v.data, dst)

\* impl_socket_addr: the octets and the port in a local array, one write_all.
Socket_encode_to_writer(v, writer) ==
  LET addr_size == AddrSize(v.ty)
      ip == CopyInto(Fill(0, addr_size + PORT_SIZE), 0, v.octets)
      b == CopyInto(ip, addr_size, BE(v.port, PORT_SIZE)) IN
  write_all(writer, b, addr_size + PORT_SIZE, "none", 0)

\* impl_addr: dst.write_all(&self.octets()).map(|_| $addr_size).
Addr_encode_to_writer(v, dst) == write_all(dst, v.octets, AddrSize(v.ty), "none", 0)

Duration_encode_to_writer(v, writer) ==
  LET b == encode_duration_unchecked(TsOf(v)) IN
  write_all(writer, b, Len(b), "none", 0)

\* SystemTime: encode into a local array, its error mapped to InvalidData and
\* returned before the write; the method returns ().
SystemTime_encode_to_writer(v, writer) ==
  LET e == SystemTime_encode(v, Fill(0, ENCODED_LEN))
      w == write_all(writer, e.buf, 0, "none", 0) IN
  IF e.kind = "Err"
  THEN [bytes |-> <<>>, res |-> EncErr(e.err, <<>>),
        io |-> IoW("none", 0, <<>>, "InvalidData")]
  ELSE IF w.res.kind = "Ok"
  THEN [bytes |-> w.bytes, res |-> EncUnit(<<>>), io |-> w.io]
  ELSE w

\* T::encode_to_writer(&v, &mut writer) for the type of v.
type_encode_to_writer(v, writer) ==
  CASE v.ty = "IpAddr" ->
         write_all(writer, IpAddr_encode_to_writer(v).bytes,
                   IpAddr_encode_to_writer(v).n, "none", 0)
    [] v.ty \in NumTypes    -> Num_encode_to_writer(v, writer)
    [] v.ty \in ArrayTypes  -> Array_encode_to_writer(v, writer)
    [] v.ty \in BytesTypes  -> Bytes_encode_to_writer(v, writer)
    [] v.ty \in StringTypes -> String_encode_to_writer(v, writer)
    [] v.ty \in SocketTypes -> Socket_encode_to_writer(v, writer)
    [] v.ty \in AddrTypes   -> Addr_encode_to_writer(v, writer)
    [] v.ty = "Duration"    -> Duration_encode_to_writer(v, writer)
    [] v.ty = "SystemTime"  -> SystemTime_encode_to_writer(v, writer)

\* A read_exact that failed: the reads issued, the last of them the failing
\* one, and the bytes the earlier ones took.
ReadFailed(reads, consumed) ==
  [res |-> DecErr("io", 0), io |-> Io("none", 0, reads, consumed, "UnexpectedEof")]

\* A stream decode that returned (n, v) after the given reads.
ReadOk(n, v, reads) ==
  [res |-> DecOk(n, v), io |-> Io("none", 0, reads, n, "")]

Num_decode_from_reader(ty, reader) ==
  LET SIZE == SizeOf(ty)
      r == read_exact(reader, SIZE) IN
  IF ~r.ok THEN ReadFailed(<<SIZE>>, 0)
  ELSE ReadOk(SIZE, Num(ty, from_network_endian(ty, r.bytes)), <<SIZE>>)

\* [u8; N]: src.read_exact(&mut buf).map(|_| (N, buf)).
Array_decode_from_reader(ty, src) ==
  LET N == ArrayN(ty)
      r == read_exact(src, N) IN
  IF ~r.ok THEN ReadFailed(<<N>>, 0) ELSE ReadOk(N, Array(r.bytes), <<N>>)

\* impls::decode_bytes_from and decode_bytes_from_async: the header, then a
\* read of as many bytes as it announces.
decode_bytes_from(src) ==
  LET len_buf == read_exact(src, MESSAGE_SIZE_LEN)
      len == FromBE(len_buf.bytes)
      r == read_exact(len_buf.rest, len) IN
  IF ~len_buf.ok
  THEN [n |-> 0, data |-> <<>>, ok |-> FALSE, reads |-> <<MESSAGE_SIZE_LEN>>,
        consumed |-> 0]
  ELSE IF ~r.ok
  THEN [n |-> 0, data |-> <<>>, ok |-> FALSE, reads |-> <<MESSAGE_SIZE_LEN, len>>,
        consumed |-> MESSAGE_SIZE_LEN]
  ELSE [n |-> MESSAGE_SIZE_LEN + len, data |-> r.bytes, ok |-> TRUE,
        reads |-> <<MESSAGE_SIZE_LEN, len>>, consumed |-> MESSAGE_SIZE_LEN + len]

Bytes_decode_from_reader(ty, src) ==
  LET r == decode_bytes_from(src) IN
  IF ~r.ok THEN ReadFailed(r.reads, r.consumed)
  ELSE ReadOk(r.n, Bytes(ty, r.data), r.reads)

\* impl_string: a payload that is not UTF-8 is returned as InvalidData.
String_decode_from_reader(ty, src) ==
  LET r == decode_bytes_from(src) IN
  IF ~r.ok THEN ReadFailed(r.reads, r.consumed)
  ELSE IF Utf8Valid(r.data) THEN ReadOk(r.n, Str(ty, r.data), r.reads)
  ELSE [res |-> DecErr("Utf8Error", valid_up_to(r.data)),
        io |-> Io("none", 0, r.reads, r.consumed, "InvalidData")]

Socket_decode_from_reader(ty, reader) ==
  LET addr_size == AddrSize(ty)
      r == read_exact(reader, addr_size + PORT_SIZE) IN
  IF ~r.ok THEN ReadFailed(<<addr_size + PORT_SIZE>>, 0)
  ELSE LET ip == Slice(r.bytes, 0, addr_size)
           port == FromBE(<<r.bytes[addr_size + 1], r.bytes[addr_size + 2]>>) IN
       ReadOk(addr_size + PORT_SIZE, FromIP(ty, ip, port), <<addr_size + PORT_SIZE>>)

\* impl_addr: <[u8; $addr_size]>::decode_from_reader(src), then Self::from(octets).
Addr_decode_from_reader(ty, src) ==
  LET N == AddrSize(ty)
      r == read_exact(src, N) IN
  IF ~r.ok THEN ReadFailed(<<N>>, 0) ELSE ReadOk(N, Addr(ty, r.bytes), <<N>>)

Duration_decode_from_reader(reader) ==
  LET r == read_exact(reader, ENCODED_LEN) IN
  IF ~r.ok THEN ReadFailed(<<ENCODED_LEN>>, 0)
  ELSE ReadOk(decode_duration_unchecked(r.bytes).n,
              Dur(decode_duration_unchecked(r.bytes).d), <<ENCODED_LEN>>)

SystemTime_decode_from_reader(reader) ==
  LET r == read_exact(reader, ENCODED_LEN) IN
  IF ~r.ok THEN ReadFailed(<<ENCODED_LEN>>, 0)
  ELSE ReadOk(decode_duration_unchecked(r.bytes).n,
              SysTime(TsAdd(UNIX_EPOCH, decode_duration_unchecked(r.bytes).d)),
              <<ENCODED_LEN>>)

\* T::decode_from_reader(&mut reader) for the type ty.
type_decode_from_reader(ty, reader) ==
  CASE ty = "IpAddr"      -> IpAddr_decode_from_reader(reader)
    [] ty \in NumTypes    -> Num_decode_from_reader(ty, reader)
    [] ty \in ArrayTypes  -> Array_decode_from_reader(ty, reader)
    [] ty \in BytesTypes  -> Bytes_decode_from_reader(ty, reader)
    [] ty \in StringTypes -> String_decode_from_reader(ty, reader)
    [] ty \in SocketTypes -> Socket_decode_from_reader(ty, reader)
    [] ty \in AddrTypes   -> Addr_decode_from_reader(ty, reader)
    [] ty = "Duration"    -> Duration_decode_from_reader(reader)
    [] ty = "SystemTime"  -> SystemTime_decode_from_reader(reader)

\* Instant::encode_to_writer: encode into a local array, then one write_all.
Instant_encode_to_writer(v, writer, cell, wallclock) ==
  LET e == Instant_encode(v, Fill(0, ENCODED_LEN), cell, wallclock)
      w == write_all(writer, e.res.buf, ENCODED_LEN, "none", 0) IN
  [bytes |-> w.bytes, cell |-> e.cell, res |-> w.res, io |-> w.io]

\* Instant::decode_from_reader: one read, then decode_instant_from_duration.
Instant_decode_from_reader(reader, cell, wallclock, monoclock) ==
  LET r == read_exact(reader, ENCODED_LEN)
      d == Instant_decode(r.bytes, cell, wallclock, monoclock) IN
  IF ~r.ok
  THEN [cell |-> cell, res |-> DecErr("io", 0),
        io |-> Io("none", 0, <<ENCODED_LEN>>, 0, "UnexpectedEof")]
  ELSE [cell |-> d.cell, res |-> d.res,
        io |-> Io("none", 0, <<ENCODED_LEN>>, ENCODED_LEN, "")]

-----------------------------------------------------------------------------
(* The state *)

VARIABLES
  op,      \* the last call: "none", "encode", "decode", "roundtrip", ...
  val,     \* its value argument (encode) or the type decoded
  buf,     \* the destination as the caller passed it, or the source
  enc,     \* the outcome of the encode it made
  dec,     \* the outcome of the decode it made
  stream,  \* the bytes a stream encode handed to the sink, or the stream read
  io,      \* what a stream call did: buffer path, reads issued, bytes consumed
  mono,    \* the monotonic clock
  wall,    \* the wall clock, since UNIX_EPOCH
  ticks,   \* ticks taken
  cell,    \* the OnceLock ONCE of init
  pc,      \* per thread: where it is in its Instant call
  call,    \* per thread: "encode" or "decode"
  arg,     \* per thread: the Instant or Duration it was called with
  now,     \* per thread: the argument it gave init
  seen,    \* per thread: the pair init returned to it
  via,     \* per thread: the path init took: "get", "closure" or "wait"
  out      \* per thread: the Duration or Instant it returned

codecVars == <<op, val, buf, enc, dec, stream, io>>
clockVars == <<mono, wall, ticks>>
threadVars == <<pc, call, arg, now, seen, via, out>>
vars == <<op, val, buf, enc, dec, stream, io, mono, wall, ticks, cell,
          pc, call, arg, now, seen, via, out>>

\* Threads that use the monotonic-time codec concurrently.
MaxThreads == 2
Threads == 1..MaxThreads

NoEnc == [n |-> 0, buf |-> <<>>, kind |-> "none", err |-> ""]
NoDec == [n |-> 0, kind |-> "none", err |-> "", arg |-> 0, val |-> NoVal]
NoIo == [err |-> "", path |-> "none", cap |-> 0, reads |-> <<>>, consumed |-> 0,
         writes |-> <<>>]

\* The values put through a round trip: those of every type, and byte
\* payloads long enough to use the second byte of the length header.
RoundTripValues ==
  Values \cup {v \in BoundaryValues : v.ty \in BytesTypes}
  \cup {Bytes("Arc<[u8]>", Fill(7, MAX_INLINED_BYTES + 44))}

\* The round trips of test_transformable with their outcomes.
RoundTripCalls ==
  {<<v, encode_to_vec(v),
     IF Succeeded(encode_to_vec(v)) THEN decode(v.ty, encode_to_vec(v).buf) ELSE NoDec>> :
     v \in RoundTripValues}

\* The stream half of test_transformable: encode_to_writer into an empty Vec,
\* then decode_from_reader from a reader over that Vec.
StreamRoundTripCalls ==
  {<<v, type_encode_to_writer(v, "ok"),
     IF Succeeded(type_encode_to_writer(v, "ok").res)
     THEN type_decode_from_reader(v.ty, type_encode_to_writer(v, "ok").bytes)
     ELSE [res |-> NoDec, io |-> type_encode_to_writer(v, "ok").io]>> :
     v \in RoundTripValues}

\* Stream encodes of each type and of the default method on the failing sink
\* (the round trips write to the accepting one).
TypeWriterCalls ==
  {<<v, writer, type_encode_to_writer(v, writer)>> :
     v \in Values, writer \in Sinks \ {"ok"}}

BrokenWriterCalls ==
  {<<v, encode_to_writer(v, "broken")>> : v \in WriterValues \cup SystemTimeValues}

\* The streams each type's decode_from_reader is given: an empty one, one that
\* ends a byte before the value does, and one with bytes after the value.
TypeReaderInputs ==
  UNION {UNION {{<<ty, SubSeq(b, 1, k)>> :
                   k \in {0, Len(b) - MaxPad - 1, Len(b)} \cap (0..Len(b))} :
                b \in Framed(ty) \cup (IF ty = "String" THEN MalformedText ELSE {})} :
         ty \in PureTypes \ {"IpAddr"}}

\* The same for the streams a peer's timestamps arrive on.
InstantStreams ==
  {s \in InstantSrcs : Len(s) \in {0, ENCODED_LEN - 1, ENCODED_LEN + MaxPad}}

TypeReaderCalls ==
  {<<in[1], in[2], type_decode_from_reader(in[1], in[2])>> : in \in TypeReaderInputs}

\* The buffer calls with their outcomes.
EncodeCalls == {<<in[1], in[2], encode(in[1], in[2])>> : in \in EncodeInputs}
DecodeCalls == {<<in[1], in[2], decode(in[1], in[2])>> : in \in DecodeInputs}
EncodeVarintCalls ==
  {<<x, b, encode_varint(x, b)>> : x \in VarintValues, b \in VarintBufs}

Init ==
  /\ op = "none" /\ val = NoVal /\ buf = <<>>
  /\ enc = NoEnc /\ dec = NoDec /\ stream = <<>> /\ io = NoIo
  /\ mono = Mono0 /\ wall = Wall0 /\ ticks = 0
  /\ cell = NoAnchor
  /\ pc = [t \in Threads |-> "idle"]
  /\ call = [t \in Threads |-> "none"]
  /\ arg = [t \in Threads |-> UNIX_EPOCH]
  /\ now = [t \in Threads |-> UNIX_EPOCH]
  /\ seen = [t \in Threads |-> NoAnchor]
  /\ via = [t \in Threads |-> "none"]
  /\ out = [t \in Threads |-> UNIX_EPOCH]

-----------------------------------------------------------------------------
(* Calls made by one caller at a time *)

\* T::encode(&v, &mut dst)
Encode ==
  \E c \in EncodeCalls :
    LET v == c[1]
        dst == c[2] IN
    /\ op' = "encode" /\ val' = v /\ buf' = dst
    /\ enc' = c[3] /\ dec' = NoDec /\ stream' = <<>> /\ io' = NoIo
    /\ UNCHANGED <<clockVars, cell, threadVars>>

\* Instant::encode(&v, &mut dst)
EncodeInstant ==
  \E v \in Readings(mono) : \E dst \in InstantDsts :
    LET r == Instant_encode(v, dst, cell, wall) IN
    /\ op' = "encode" /\ val' = v /\ buf' = dst
    /\ enc' = r.res /\ dec' = NoDec /\ stream' = <<>> /\ io' = NoIo
    /\ cell' = r.cell
    /\ UNCHANGED <<clockVars, threadVars>>

\* T::decode(&src)
Decode ==
  \E c \in DecodeCalls :
    LET ty == c[1]
        src == c[2] IN
    /\ op' = "decode" /\ val' = [ty |-> ty] /\ buf' = src
    /\ enc' = NoEnc /\ dec' = c[3] /\ stream' = <<>> /\ io' = NoIo
    /\ UNCHANGED <<clockVars, cell, threadVars>>

\* Instant::decode(&src)
DecodeInstant ==
  \E src \in InstantSrcs :
    LET r == Instant_decode(src, cell, wall, mono) IN
    /\ op' = "decode" /\ val' = [ty |-> "Instant"] /\ buf' = src
    /\ enc' = NoEnc /\ dec' = r.res /\ stream' = <<>> /\ io' = NoIo
    /\ cell' = r.cell
    /\ UNCHANGED <<clockVars, threadVars>>

\* TestTransformable::test_transformable, its buffer half: encode v into
\* vec![0; v.encoded_len()], unwrap, decode the buffer.
RoundTrip ==
  \E c \in RoundTripCalls :
    LET v == c[1]
        e == c[2] IN
    /\ op' = "roundtrip" /\ val' = v /\ buf' = Fill(0, encoded_len(v))
    /\ enc' = e
    /\ dec' = c[3]
    /\ stream' = <<>> /\ io' = NoIo
    /\ UNCHANGED <<clockVars, cell, threadVars>>

\* The same for an Instant: both calls go through init.
RoundTripInstant ==
  \E v \in Readings(mono) :
    LET e == Instant_encode(v, Fill(0, encoded_len(v)), cell, wall)
        d == Instant_decode(e.res.buf, e.cell, wall, mono) IN
    /\ op' = "roundtrip" /\ val' = v /\ buf' = Fill(0, encoded_len(v))
    /\ enc' = e.res /\ dec' = d.res /\ stream' = <<>> /\ io' = NoIo
    /\ cell' = d.cell
    /\ UNCHANGED <<clockVars, threadVars>>

\* IpAddr::encode_to_writer(&v, &mut sink) and encode_to_async_writer, on a
\* sink that accepts every byte.
EncodeToWriter ==
  \E v \in IpAddrValues :
    LET w == IpAddr_encode_to_writer(v) IN
    /\ op' = "encode_to_writer" /\ val' = v /\ buf' = <<>>
    /\ enc' = EncOk(w.n, <<>>) /\ dec' = NoDec /\ stream' = w.bytes /\ io' = NoIo
    /\ UNCHANGED <<clockVars, cell, threadVars>>

\* The default T::encode_to_writer(&v, &mut sink) and its async twin.
EncodeToWriterDefault ==
  \E c \in WriterCalls :
    LET v == c[1]
        w == c[2] IN
    /\ op' = "default_encode_to_writer" /\ val' = v /\ buf' = <<>>
    /\ enc' = w.res /\ dec' = NoDec /\ stream' = w.bytes /\ io' = w.io
    /\ UNCHANGED <<clockVars, cell, threadVars>>

\* encode_to_writer of the byte and text types: encode_bytes_to(v.as_ref(), sink).
EncodeBytesTo ==
  \E c \in FrameCalls :
    LET v == c[1]
        w == c[2] IN
    /\ op' = "encode_bytes_to" /\ val' = v /\ buf' = <<>>
    /\ enc' = w.res /\ dec' = NoDec /\ stream' = w.bytes /\ io' = w.io
    /\ UNCHANGED <<clockVars, cell, threadVars>>

\* encode of a byte or text value of src_len bytes, in the buffer form or a
\* stream form: the length header it writes (the payload is not represented).
EncodeLongFrame ==
  \E src_len \in LongLens :
    /\ op' = "frame_header" /\ val' = [ty |-> "payload", src_len |-> src_len]
    /\ buf' = <<>> /\ enc' = EncOk(MESSAGE_SIZE_LEN, frame_header(src_len))
    /\ dec' = NoDec /\ stream' = <<>> /\ io' = NoIo
    /\ UNCHANGED <<clockVars, cell, threadVars>>

\* IpAddr::decode_from_reader(&mut reader) and its async twin.
DecodeFromReaderIpAddr ==
  \E c \in IpAddrReaderCalls :
    /\ op' = "IpAddr_decode_from_reader" /\ val' = [ty |-> "IpAddr"] /\ buf' = <<>>
    /\ enc' = NoEnc /\ dec' = c[2].res /\ stream' = c[1] /\ io' = c[2].io
    /\ UNCHANGED <<clockVars, cell, threadVars>>

\* The default T::decode_from_reader(&mut reader) and its async twin, on a
\* reader over the bytes s.
DecodeFromReader ==
  \E in \in ReaderCalls :
    LET r == in[3] IN
    /\ op' = "decode_from_reader" /\ val' = [ty |-> in[1]] /\ buf' = <<>>
    /\ enc' = NoEnc /\ dec' = r.res /\ stream' = in[2] /\ io' = r.io
    /\ UNCHANGED <<clockVars, cell, threadVars>>

\* What a stream round trip did: the writes of its encode, and the reads of
\* its decode when the encode succeeded.
RoundTripIo(w, r) ==
  [err |-> IF w.err # "" THEN w.err ELSE r.err, path |-> w.path, cap |-> w.cap,
   reads |-> r.reads, consumed |-> r.consumed, writes |-> w.writes]

\* T::encode_to_writer(&v, &mut writer) of the type's own method, on a sink
\* that fails.
TypeEncodeToWriter ==
  \E c \in TypeWriterCalls :
    /\ op' = "type_encode_to_writer" /\ val' = c[1] /\ buf' = <<>>
    /\ enc' = c[3].res /\ dec' = NoDec /\ stream' = c[3].bytes /\ io' = c[3].io
    /\ UNCHANGED <<clockVars, cell, threadVars>>

\* Instant::encode_to_writer(&v, &mut writer)
InstantEncodeToWriter ==
  \E v \in Readings(mono) : \E writer \in Sinks \ {"ok"} :
    LET w == Instant_encode_to_writer(v, writer, cell, wall) IN
    /\ op' = "type_encode_to_writer" /\ val' = v /\ buf' = <<>>
    /\ enc' = w.res /\ dec' = NoDec /\ stream' = w.bytes /\ io' = w.io
    /\ cell' = w.cell
    /\ UNCHANGED <<clockVars, threadVars>>

\* The default T::encode_to_writer(&v, &mut writer) on a sink that fails.
EncodeToBrokenWriter ==
  \E c \in BrokenWriterCalls :
    /\ op' = "default_encode_to_broken_writer" /\ val' = c[1] /\ buf' = <<>>
    /\ enc' = c[2].res /\ dec' = NoDec /\ stream' = c[2].bytes /\ io' = c[2].io
    /\ UNCHANGED <<clockVars, cell, threadVars>>

\* T::decode_from_reader(&mut reader) of the type's own method.
TypeDecodeFromReader ==
  \E c \in TypeReaderCalls :
    /\ op' = "type_decode_from_reader" /\ val' = [ty |-> c[1]] /\ buf' = <<>>
    /\ enc' = NoEnc /\ dec' = c[3].res /\ stream' = c[2] /\ io' = c[3].io
    /\ UNCHANGED <<clockVars, cell, threadVars>>

\* Instant::decode_from_reader(&mut reader)
InstantDecodeFromReader ==
  \E src \in InstantStreams :
    LET r == Instant_decode_from_reader(src, cell, wall, mono) IN
    /\ op' = "type_decode_from_reader" /\ val' = [ty |-> "Instant"] /\ buf' = <<>>
    /\ enc' = NoEnc /\ dec' = r.res /\ stream' = src /\ io' = r.io
    /\ cell' = r.cell
    /\ UNCHANGED <<clockVars, threadVars>>

\* The stream half of test_transformable for a value v.
StreamRoundTrip ==
  \E c \in StreamRoundTripCalls :
    /\ op' = "stream_roundtrip" /\ val' = c[1] /\ buf' = <<>>
    /\ enc' = c[2].res /\ dec' = c[3].res /\ stream' = c[2].bytes
    /\ io' = RoundTripIo(c[2].io, c[3].io)
    /\ UNCHANGED <<clockVars, cell, threadVars>>

\* The same for an Instant: both calls go through init.
StreamRoundTripInstant ==
  \E v \in Readings(mono) :
    LET w == Instant_encode_to_writer(v, "ok", cell, wall)
        r == Instant_decode_from_reader(w.bytes, w.cell, wall, mono) IN
    /\ op' = "stream_roundtrip" /\ val' = v /\ buf' = <<>>
    /\ enc' = w.res /\ dec' = r.res /\ stream' = w.bytes
    /\ io' = RoundTripIo(w.io, r.io)
    /\ cell' = r.cell
    /\ UNCHANGED <<clockVars, threadVars>>

\* utils::encode_varint(x, &mut b)
EncodeVarint ==
  \E c \in EncodeVarintCalls :
    /\ op' = "encode_varint" /\ val' = [ty |-> "varint", x |-> c[1]] /\ buf' = c[2]
    /\ enc' = c[3] /\ dec' = NoDec /\ stream' = <<>> /\ io' = NoIo
    /\ UNCHANGED <<clockVars, cell, threadVars>>

\* utils::decode_varint(&src)
DecodeVarint ==
  \E c \in DecodeVarintCalls :
    /\ op' = "decode_varint" /\ val' = [ty |-> "varint"] /\ buf' = c[1]
    /\ enc' = NoEnc /\ dec' = c[2] /\ stream' = <<>> /\ io' = NoIo
    /\ UNCHANGED <<clockVars, cell, threadVars>>

\* tests::check: encode_varint into [0u8; 16], unwrap, decode_varint of the
\* bytes written.
RoundTripVarint ==
  \E c \in RoundTripVarintCalls :
    /\ op' = "varint_roundtrip" /\ val' = Varint(c[1]) /\ buf' = Fill(0, 16)
    /\ enc' = c[2] /\ dec' = c[3]
    /\ stream' = <<>> /\ io' = NoIo
    /\ UNCHANGED <<clockVars, cell, threadVars>>

\* Time passes: both clocks advance.
Tick ==
  /\ ticks < MaxTicks
  /\ ticks' = ticks + 1
  /\ mono' = TsAdd(mono, TickStep)
  /\ wall' = TsAdd(wall, TickStep)
  /\ UNCHANGED <<codecVars, cell, threadVars>>

Next ==
  \/ Encode
  \/ EncodeInstant
  \/ Decode
  \/ DecodeInstant
  \/ RoundTrip
  \/ RoundTripInstant
  \/ EncodeToWriter
  \/ EncodeToWriterDefault
  \/ EncodeBytesTo
  \/ EncodeLongFrame
  \/ DecodeFromReader
  \/ DecodeFromReaderIpAddr
  \/ TypeEncodeToWriter
  \/ InstantEncodeToWriter
  \/ EncodeToBrokenWriter
  \/ TypeDecodeFromReader
  \/ InstantDecodeFromReader
  \/ StreamRoundTrip
  \/ StreamRoundTripInstant
  \/ EncodeVarint
  \/ DecodeVarint
  \/ RoundTripVarint
  \/ Tick

Spec == Init /\ [][Next]_vars

-----------------------------------------------------------------------------
(* Properties *)

Tag(v) == IF v.fam = 4 THEN 4 ELSE 6

\* The tagged wire form of an address: the tag byte, then the octets.
TaggedWire(v) == <<Tag(v)>> \o v.octets

\* C1: for every tagged IPv4 or IPv6 address v, decoding the buffer that
\* encode filled returns (encoded_len(v), v), and that count is also the count
\* encode returned.
C1_TaggedRoundTrip ==
  (op = "roundtrip" /\ val.ty = "IpAddr") =>
    /\ enc.kind = "Ok" /\ dec.kind = "Ok"
    /\ dec.val = val
    /\ dec.n = encoded_len(val)
    /\ enc.n = dec.n

\* C2: for a tagged address, encoded_len and the counts returned by encode and
\* by encode_to_writer are 5 (IPv4) or 17 (IPv6), and the bytes produced are
\* the tag byte followed by the octets, with no port bytes and no padding.
C2_TaggedLayout ==
  /\ (op = "encode" /\ val.ty = "IpAddr" /\ enc.kind = "Ok") =>
       /\ encoded_len(val) = Len(TaggedWire(val))
       /\ enc.n = Len(TaggedWire(val))
       /\ SubSeq(enc.buf, 1, enc.n) = TaggedWire(val)
  /\ (op = "encode_to_writer" /\ val.ty = "IpAddr") =>
       /\ enc.kind = "Ok"
       /\ enc.n = Len(TaggedWire(val))
       /\ stream = TaggedWire(val)

\* C3: tagged decode of a source starting with 4 succeeds when the source has
\* at least 5 bytes and fails Corrupted when it has fewer; starting with 6, at
\* least 17 bytes and fewer than 17.
C3_TaggedDecodeLength ==
  (op = "decode" /\ val.ty = "IpAddr" /\ Len(buf) > 0 /\ buf[1] \in {4, 6}) =>
    LET need == IF buf[1] = 4 THEN 5 ELSE 17 IN
    IF Len(buf) >= need
    THEN dec.kind = "Ok"
    ELSE dec.kind = "Err" /\ dec.err = "Corrupted"

\* C4: decoding the bytes produced by encoding a monotonic reading r returns
\* r, whether r is earlier than, equal to or later than the anchor's monotonic
\* snapshot and whichever call initialized the anchor.
C4_InstantRoundTrip ==
  (op = "roundtrip" /\ val.ty = "Instant") =>
    enc.kind = "Ok" /\ dec.kind = "Ok" /\ dec.val = val

\* C5: encoding a reading r yields the anchor's wall-clock-since-epoch value
\* plus the signed offset r - (the anchor's monotonic snapshot): d earlier than
\* the snapshot encodes d earlier than the anchor's wall clock, d later, d later.
C5_EncodeSignedOffset ==
  (op = "encode" /\ val.ty = "Instant" /\ enc.kind = "Ok") =>
    LET r == TsOf(val)
        wire == decode_duration_unchecked(enc.buf).d IN
    IF TsLe(r, cell.instant_now)
    THEN wire = TsSub(cell.system_now, TsSub(cell.instant_now, r))
    ELSE wire = TsAdd(cell.system_now, TsSub(r, cell.instant_now))

\* C7: for every type and value v, encode into a destination of at least
\* encoded_len(v) bytes succeeds and returns encoded_len(v) as the count.
C7_EncodeSucceeds ==
  (op = "encode" /\ Len(buf) >= encoded_len(val)) =>
    enc.kind = "Ok" /\ enc.n = encoded_len(val)

\* C8: for every type and value v, encode into a destination shorter than
\* encoded_len(v) fails with EncodeBufferTooSmall and leaves every byte of the
\* destination unchanged.
C8_ShortBufferRejected ==
  (op = "encode" /\ Len(buf) < encoded_len(val)) =>
    enc.kind = "Err" /\ enc.err = "EncodeBufferTooSmall" /\ enc.buf = buf

\* A destination one byte short of a value's encoded length was refused.
C8_Witness ==
  /\ op = "encode" /\ Len(buf) + 1 = encoded_len(val)
  /\ val.ty \in {"IpAddr", "u64", "Box<str>", "Instant"}
  /\ enc.kind = "Err"

\* C9: encode_varint into a buffer shorter than encoded_len_varint(value)
\* fails with BufferTooSmall, for every value and every such length, and
\* leaves the buffer unchanged.
C9_VarintShortBuffer ==
  (op = "encode_varint" /\ Len(buf) < encoded_len_varint(val.x)) =>
    enc.kind = "Err" /\ enc.err = "BufferTooSmall" /\ enc.buf = buf

\* The least length of a source the type's wire form can have.
MinLen(ty) ==
  CASE ty = "IpAddr"      -> TAG_SIZE + V4_SIZE
    [] ty \in NumTypes    -> SizeOf(ty)
    [] ty \in ArrayTypes  -> ArrayN(ty)
    [] ty \in BytesTypes \cup StringTypes -> MESSAGE_SIZE_LEN
    [] ty \in SocketTypes -> AddrSize(ty) + PORT_SIZE
    [] ty \in AddrTypes   -> AddrSize(ty)
    [] ty \in {"Duration", "SystemTime", "Instant"} -> ENCODED_LEN

DecodeErrors == {"NotEnoughBytes", "Corrupted", "UnknownAddressFamily"}

\* C10: for every type, decode of a source shorter than the type requires,
\* the empty source included, returns a decode-side error value: it neither
\* aborts nor returns a value.
C10_ShortSourceIsError ==
  (op = "decode" /\ Len(buf) < MinLen(val.ty)) =>
    dec.kind = "Err" /\ dec.err \in DecodeErrors

\* C11: the default decode_from_reader reads the 4-byte big-endian header N,
\* then exactly N further bytes (4 + N consumed in all), and returns what
\* decode returns on those 4 + N bytes.
C11_DefaultReaderFrame ==
  (/\ op = "decode_from_reader"
   /\ Len(stream) >= MESSAGE_SIZE_LEN
   /\ Len(stream) >= MESSAGE_SIZE_LEN + FromBE(SubSeq(stream, 1, MESSAGE_SIZE_LEN)))
  => LET N == FromBE(SubSeq(stream, 1, MESSAGE_SIZE_LEN)) IN
     /\ io.reads = <<MESSAGE_SIZE_LEN, N>>
     /\ io.consumed = MESSAGE_SIZE_LEN + N
     /\ dec = decode(val.ty, SubSeq(stream, 1, MESSAGE_SIZE_LEN + N))

\* C12: the default encode_to_writer and encode_bytes_to build the frame in
\* the fixed 256-byte buffer when encoded_len(v) <= 256 and in a heap buffer
\* of exactly encoded_len(v) bytes when it is 257 or more; either way the sink
\* gets exactly the encoded_len(v) bytes encode produces and the count
\* returned is encoded_len(v).
C12_WriterInlineHeap ==
  op \in {"default_encode_to_writer", "encode_bytes_to"} =>
    /\ (encoded_len(val) <= 256 => io.path = "inline" /\ io.cap = 256)
    /\ (encoded_len(val) >= 257 => io.path = "heap" /\ io.cap = encoded_len(val))
    /\ stream = encode_to_vec(val).buf
    /\ Len(stream) = encoded_len(val)
    /\ enc.kind = "Ok" /\ enc.n = encoded_len(val)

\* A frame of 257 bytes was written from a heap buffer.
C12_Witness ==
  /\ op \in {"default_encode_to_writer", "encode_bytes_to"}
  /\ encoded_len(val) = 257 /\ io.path = "heap" /\ Len(stream) = 257

\* C13: for every byte or text payload p of length N, encoding p into a buffer
\* of exactly encoded_len(p) = 4 + N bytes writes the 4-byte big-endian N
\* followed by p, and decoding that buffer returns (4 + N, p).
C13_FrameRoundTrip ==
  (op = "roundtrip" /\ val.ty \in BytesTypes \cup StringTypes) =>
    LET N == Len(val.data) IN
    /\ encoded_len(val) = 4 + N /\ Len(buf) = 4 + N
    /\ enc.kind = "Ok"
    /\ enc.buf = <<N \div 16777216, (N \div 65536) % 256, (N \div 256) % 256, N % 256>>
                 \o val.data
    /\ dec.kind = "Ok" /\ dec.n = 4 + N /\ dec.val = val

\* A payload long enough to use two bytes of the header went through the
\* round trip.
C13_Witness ==
  /\ op = "roundtrip" /\ val.ty \in BytesTypes
  /\ Len(val.data) >= 256 /\ enc.buf[3] = 1
  /\ dec.kind = "Ok" /\ dec.val = val

\* C14: frame decode of a source shorter than 4 bytes fails NotEnoughBytes;
\* when the header claims N and fewer than N bytes follow, it fails
\* NotEnoughBytes; otherwise it returns (4 + N, the N payload bytes), whatever
\* follows them.
C14_FrameDecode ==
  (op = "decode" /\ val.ty \in BytesTypes \cup StringTypes) =>
    IF Len(buf) < 4
    THEN dec.kind = "Err" /\ dec.err = "NotEnoughBytes"
    ELSE LET N == FromBE(SubSeq(buf, 1, 4)) IN
         IF Len(buf) - 4 < N
         THEN dec.kind = "Err" /\ dec.err = "NotEnoughBytes"
         ELSE /\ dec.kind = "Ok" /\ dec.n = 4 + N
              /\ dec.val.data = SubSeq(buf, 5, 4 + N)

\* C15: the 4-byte length field frame encode writes, in the buffer form and
\* in the stream forms, equals the payload's own byte length; a payload longer
\* than the 32-bit unsigned range is never emitted with a wrapped length.
C15_LengthField ==
  /\ (op \in {"encode", "roundtrip"} /\ val.ty \in BytesTypes \cup StringTypes
       /\ enc.kind = "Ok")
     => FromBE(SubSeq(enc.buf, 1, 4)) = Len(val.data)
  /\ op = "encode_bytes_to" => FromBE(SubSeq(stream, 1, 4)) = Len(val.data)
  /\ (op = "frame_header" /\ enc.kind = "Ok")
     => /\ val.src_len[3] = 0 /\ val.src_len[4] = 0
        /\ enc.buf = <<val.src_len[2] \div 256, val.src_len[2] % 256,
                       val.src_len[1] \div 256, val.src_len[1] % 256>>

\* C16: stream decode of a tagged address first reads exactly 5 bytes; when
\* the tag is 4 it returns without a further read, having consumed exactly 5
\* bytes; only when the tag is 6 does it issue a second read, of exactly 12
\* bytes, consuming 17 in all.
C16_TaggedStreamReads ==
  op = "IpAddr_decode_from_reader" =>
    /\ Len(io.reads) >= 1 /\ io.reads[1] = 5
    /\ (Len(stream) >= 5 /\ stream[1] = 4) =>
          io.reads = <<5>> /\ io.consumed = 5 /\ dec.kind = "Ok" /\ dec.n = 5
    /\ Len(io.reads) > 1 =>
          Len(stream) >= 5 /\ stream[1] = 6 /\ io.reads = <<5, 12>>
    /\ (Len(stream) >= 17 /\ stream[1] = 6) =>
          io.reads = <<5, 12>> /\ io.consumed = 17 /\ dec.kind = "Ok" /\ dec.n = 17
                               /\ dec.val.octets = SubSeq(stream, 2, 17)

\* An IPv4 address was decoded from a stream that holds more than its 5 bytes.
C16_Witness ==
  /\ op = "IpAddr_decode_from_reader" /\ Len(stream) > 5 /\ stream[1] = 4
  /\ dec.kind = "Ok" /\ io.consumed = 5

\* C17: decode of a tagged address from a non-empty source whose first byte is
\* neither 4 nor 6 fails with UnknownAddressFamily carrying that byte, at
\* every length of the source.
C17_UnknownFamily ==
  (op = "decode" /\ val.ty = "IpAddr" /\ Len(buf) >= 1 /\ buf[1] \notin {4, 6}) =>
    dec.kind = "Err" /\ dec.err = "UnknownAddressFamily" /\ dec.arg = buf[1]

\* A one-byte source holding the tag 5 was decoded.
C17_Witness ==
  /\ op = "decode" /\ val.ty = "IpAddr" /\ buf = <<5>>
  /\ dec.kind = "Err" /\ dec.err = "UnknownAddressFamily" /\ dec.arg = 5

\* Bit k of a u64, and its j-th group of 7 bits, counted from the low end.
BitOf(x, k) == IF k >= 64 THEN 0 ELSE (x[(k \div 16) + 1] \div Pow2(k % 16)) % 2
GroupOf(x, j) ==
  BitOf(x, 7 * j) + 2 * BitOf(x, 7 * j + 1) + 4 * BitOf(x, 7 * j + 2)
  + 8 * BitOf(x, 7 * j + 3) + 16 * BitOf(x, 7 * j + 4) + 32 * BitOf(x, 7 * j + 5)
  + 64 * BitOf(x, 7 * j + 6)

\* C18: decode_varint of the bytes encode_varint writes for a value returns
\* (encoded_len_varint(value), value), for zero and u64::MAX too; the bytes
\* are the value's groups of 7 bits from the low end, each but the last with
\* the high bit set.
C18_VarintRoundTrip ==
  op = "varint_roundtrip" =>
    /\ enc.kind = "Ok" /\ enc.n = encoded_len_varint(val.x)
    /\ dec.kind = "Ok" /\ dec.n = encoded_len_varint(val.x) /\ dec.val.x = val.x
    /\ \A i \in 1..enc.n :
         /\ enc.buf[i] % 128 = GroupOf(val.x, i - 1)
         /\ (enc.buf[i] >= 128) <=> (i < enc.n)

\* u64::MAX went round: ten bytes, the last of them 1.
C18_Witness ==
  /\ op = "varint_roundtrip" /\ val.x = U64_MAX
  /\ enc.n = 10 /\ enc.buf[10] = 1 /\ dec.kind = "Ok" /\ dec.val.x = U64_MAX

\* x < 2^k, and the bit length of x: the least such k.
BelowPow2(x, k) ==
  \A i \in 1..4 :
    LET r == k - 16 * (i - 1) IN
    x[i] < Pow2(IF r >= 16 THEN 16 ELSE IF r <= 0 THEN 0 ELSE r)
BitLength(x) == CHOOSE k \in 0..64 : BelowPow2(x, k) /\ (k = 0 \/ ~BelowPow2(x, k - 1))

\* C19: encoded_len_varint(value) is the count encode_varint returns when the
\* buffer is large enough, is max(1, ceil(bit length / 7)), and lies in 1..10.
C19_VarintLength ==
  op \in {"encode_varint", "varint_roundtrip"} =>
    LET len == encoded_len_varint(val.x)
        groups == (BitLength(val.x) + 6) \div 7 IN
    /\ len = IF groups < 1 THEN 1 ELSE groups
    /\ len \in 1..10
    /\ Len(buf) >= len => enc.kind = "Ok" /\ enc.n = len

\* Zero was encoded: one byte.
C19_Witness ==
  /\ op = "encode_varint" /\ val.x = U64(0) /\ Len(buf) = 10
  /\ enc.kind = "Ok" /\ enc.n = 1

\* The value of the first n bytes' groups, on five limbs: nothing is dropped.
RECURSIVE GroupsValue(_, _, _, _)
GroupsValue(bytes, i, n, acc) ==
  IF i = n THEN acc
  ELSE GroupsValue(bytes, i + 1, n, OrShl(acc, bytes[i + 1] % 128, 7 * i))

NineContinuations(bytes) == Len(bytes) >= 10 /\ \A i \in 1..9 : bytes[i] >= 128

\* C20: decode_varint fails Overflow when the tenth byte has the continuation
\* flag (so ten or more continuation bytes are Overflow, not NotEnoughBytes)
\* and when the tenth byte ends the value with value bits above 1; a value it
\* accepts has lost no bit above bit 63.
C20_VarintOverflow ==
  op = "decode_varint" =>
    /\ (NineContinuations(buf) /\ buf[10] >= 128) =>
          dec.kind = "Err" /\ dec.err = "Overflow"
    /\ (NineContinuations(buf) /\ buf[10] < 128 /\ buf[10] > 1) =>
          dec.kind = "Err" /\ dec.err = "Overflow"
    /\ dec.kind = "Ok" =>
          GroupsValue(buf, 0, dec.n, <<0, 0, 0, 0, 0>>) = dec.val.x \o <<0>>

\* Nine continuation bytes and a tenth byte 2 were decoded.
C20_Witness ==
  /\ op = "decode_varint" /\ buf = Fill(128, 9) \o <<2>>
  /\ dec.kind = "Err" /\ dec.err = "Overflow"

\* C21: decode_varint of a source of fewer than ten bytes that all carry the
\* continuation flag, the empty source among them, fails NotEnoughBytes.
C21_VarintEndsEarly ==
  (op = "decode_varint" /\ Len(buf) < 10 /\ \A i \in 1..Len(buf) : buf[i] >= 128) =>
    dec.kind = "Err" /\ dec.err = "NotEnoughBytes"

\* Nine continuation bytes and nothing after them were decoded.
C21_Witness ==
  /\ op = "decode_varint" /\ buf = Fill(128, 9)
  /\ dec.kind = "Err" /\ dec.err = "NotEnoughBytes"

\* The untagged wire form of a socket address: the octets, then the port.
SocketWire(v) == v.octets \o BE(v.port, PORT_SIZE)

\* C22: for every untagged socket address v, compared field by field, encode
\* writes the 4 or 16 octets followed by the 2-byte big-endian port (6 or 18
\* bytes), and decode of those bytes returns (6 or 18, v).
C22_SocketRoundTrip ==
  (op = "roundtrip" /\ val.ty \in SocketTypes) =>
    /\ enc.kind = "Ok" /\ enc.n = AddrSize(val.ty) + PORT_SIZE
    /\ enc.buf = SocketWire(val)
    /\ dec.kind = "Ok" /\ dec.n = AddrSize(val.ty) + PORT_SIZE
    /\ dec.val = val

\* The width in bits of an integer type.
Width(ty) ==
  CASE ty \in {"u8", "i8"}     -> 8
    [] ty \in {"u16", "i16"}   -> 16
    [] ty \in {"u32", "i32"}   -> 32
    [] ty \in {"u64", "i64"}   -> 64
    [] ty \in {"u128", "i128"} -> 128

\* Byte k (0 the least significant) of the two's complement form of x, for
\* |x| below 2^31: above the fourth byte only the sign extension is left.
TwosComplementByte(x, k) ==
  IF k >= 4 THEN (IF x < 0 THEN 255 ELSE 0)
  ELSE (x \div Pow2(8 * k)) % 256

\* C23: for every integer width from 8 to 128, signed or unsigned, encode
\* writes exactly width/8 bytes, most significant first (two's complement for
\* the signed types, the byte itself for the 8-bit ones), and decode of those
\* bytes returns (width/8, v).
C23_IntegerLayout ==
  /\ (op = "roundtrip" /\ val.ty \in NumTypes) =>
       LET size == Width(val.ty) \div 8 IN
       /\ enc.kind = "Ok" /\ enc.n = size
       /\ enc.buf = [i \in 1..size |-> TwosComplementByte(val.n, size - i)]
       /\ dec.kind = "Ok" /\ dec.n = size /\ dec.val = val
  /\ (op = "encode" /\ val.ty \in NumTypes /\ Len(buf) >= Width(val.ty) \div 8) =>
       LET size == Width(val.ty) \div 8 IN
       /\ enc.kind = "Ok" /\ enc.n = size /\ Len(enc.buf) = Len(buf)
       /\ \A i \in 1..Len(buf) :
            enc.buf[i] = IF i <= size THEN TwosComplementByte(val.n, size - i) ELSE buf[i]

\* A negative 16-bit value was encoded as 0x80 0x00 and decoded back.
C23_Witness ==
  /\ op = "roundtrip" /\ val = Num("i16", -32768)
  /\ enc.buf = <<128, 0>> /\ dec.val = val /\ dec.n = 2

\* C24: text decode validates UTF-8 only after the frame is extracted: a
\* complete frame whose payload is not valid UTF-8 fails with the Utf8Error
\* variant carrying the validation error, and a truncated frame fails
\* NotEnoughBytes even when the bytes present are not valid UTF-8.
C24_TextValidation ==
  (op = "decode" /\ val.ty \in StringTypes) =>
    LET have == Len(buf) - MESSAGE_SIZE_LEN
        len == FromBE(SubSeq(buf, 1, MESSAGE_SIZE_LEN))
        payload == SubSeq(buf, MESSAGE_SIZE_LEN + 1, MESSAGE_SIZE_LEN + len) IN
    IF have < 0 \/ have < len
    THEN dec.kind = "Err" /\ dec.err = "NotEnoughBytes"
    ELSE ~Utf8Valid(payload) =>
           /\ dec.kind = "Err" /\ dec.err = "Utf8Error"
           /\ dec.arg = valid_up_to(payload)

\* A complete frame with a continuation byte after two valid characters was
\* rejected as invalid UTF-8 at offset 2.
C24_WitnessInvalid ==
  /\ op = "decode" /\ val.ty = "String"
  /\ buf = <<0, 0, 0, 3, 104, 105, 128>>
  /\ dec.kind = "Err" /\ dec.err = "Utf8Error" /\ dec.arg = 2

\* A frame announcing two bytes and holding one, which is not UTF-8, was
\* rejected as truncated.
C24_Witness ==
  /\ op = "decode" /\ val.ty = "String"
  /\ buf = <<0, 0, 0, 2, 255>>
  /\ dec.kind = "Err" /\ dec.err = "NotEnoughBytes"

\* C25: for every implemented type and value v, encode_to_writer to an empty
\* stream followed by decode_from_reader from that stream returns a value
\* equal to v.
C25_StreamRoundTrip ==
  op = "stream_roundtrip" =>
    /\ enc.kind \in {"Ok", "OkUnit"}
    /\ dec.kind = "Ok" /\ dec.val = val

\* The bytes the first k reads of a call ask for.
RECURSIVE ReadsUpTo(_, _)
ReadsUpTo(reads, k) == IF k = 0 THEN 0 ELSE ReadsUpTo(reads, k - 1) + reads[k]

\* C26: no stream operation retries: every stream encode issues exactly one
\* write_all carrying the complete representation (none when encoding fails),
\* and every stream encode or decode returns the first error of the underlying
\* stream without a further call on it.
C26_NoRetry ==
  /\ op \in {"default_encode_to_writer", "encode_bytes_to", "type_encode_to_writer",
             "default_encode_to_broken_writer", "stream_roundtrip"} =>
       IF enc.kind \in {"Ok", "OkUnit"}
       THEN /\ io.writes = <<Len(stream)>>
            /\ Len(stream) = encoded_len(val)
            /\ val.ty # "Instant" => stream = encode_to_vec(val).buf
       ELSE IF enc.err = "io"
       THEN io.writes = <<encoded_len(val)>> /\ io.err = "BrokenPipe" /\ stream = <<>>
       ELSE io.writes = <<>> /\ io.err = "InvalidData" /\ stream = <<>>
  /\ op \in {"decode_from_reader", "IpAddr_decode_from_reader",
             "type_decode_from_reader"} =>
       LET k == Len(io.reads) IN
       /\ k >= 1
       /\ ReadsUpTo(io.reads, k - 1) <= Len(stream)
       /\ ReadsUpTo(io.reads, k) > Len(stream) =>
            /\ dec.kind = "Err" /\ dec.err = "io" /\ io.err = "UnexpectedEof"
            /\ io.consumed = ReadsUpTo(io.reads, k - 1)
       /\ io.err = "UnexpectedEof" => ReadsUpTo(io.reads, k) > Len(stream)

\* A socket address was written to a failing sink: one write_all of 6 bytes
\* was made and its error returned.
C26_Witness ==
  /\ op = "type_encode_to_writer" /\ val.ty = "SocketAddrV4"
  /\ enc.kind = "Err" /\ enc.err = "io"
  /\ io.writes = <<6>> /\ io.err = "BrokenPipe"

\* A frame's header was read and the read of its payload met the end of the
\* stream: two reads were made.
C26_WitnessRead ==
  /\ op = "type_decode_from_reader" /\ val.ty = "String"
  /\ Len(io.reads) = 2 /\ io.consumed = MESSAGE_SIZE_LEN
  /\ dec.kind = "Err" /\ dec.err = "io"

\* A time before the epoch was given to the default encode_to_writer: nothing
\* was written.
C26_WitnessEncodeFails ==
  /\ op = "default_encode_to_broken_writer" /\ val.ty = "SystemTime"
  /\ enc.kind = "Err" /\ enc.err = "InvalidSystemTime" /\ io.writes = <<>>

\* C27: the anchor's two snapshots are captured together at first use: the
\* anchor's monotonic snapshot is the monotonic clock's value at the moment
\* its wall-clock snapshot is taken, also when the first use is the encode of
\* a reading taken earlier than that moment.
C27_AnchorCapturedTogether ==
  [][(cell.state # "complete" /\ cell'.state = "complete") =>
       (cell'.system_now = wall' /\ cell'.instant_now = mono')]_vars

\* C28: for every type that defines its own stream methods, decode_from_reader
\* consumes for a value as many bytes as encode_to_writer wrote for it, so
\* values written back to back to one stream are read back in order.
C28_StreamSymmetry ==
  (op = "stream_roundtrip" /\ enc.kind \in {"Ok", "OkUnit"}) =>
    /\ dec.kind = "Ok"
    /\ io.writes = <<Len(stream)>>
    /\ io.consumed = Len(stream)

\* C29: for every type and value v, the first encoded_len(v) bytes of the
\* destination after a successful encode depend only on v, never on what the
\* destination held before: they are the bytes encode leaves in a destination
\* that held zeros.
C29_EncodeOverwrites ==
  (op = "encode" /\ enc.kind \in {"Ok", "OkUnit"}) =>
    LET zeroed == IF val.ty = "Instant"
                  THEN Instant_encode(val, Fill(0, ENCODED_LEN), cell, wall).res.buf
                  ELSE encode_to_vec(val).buf IN
    SubSeq(enc.buf, 1, encoded_len(val)) = zeroed

\* C30: the default decode_from_reader and decode_from_async_reader return a
\* result, a value or an error, rather than aborting, for every 4-byte header,
\* those whose big-endian value is 0, 1, 2 or 3 among them.
C30_DefaultReaderReturns ==
  op = "decode_from_reader" => dec.kind \in {"Ok", "Err"}

-----------------------------------------------------------------------------
(* Concurrent callers of the monotonic-time codec.  Each thread makes one     *)
(* call of encode_instant_to_duration or decode_instant_from_duration; the    *)
(* steps of init are those of OnceLock::get_or_init: read the cell if it is   *)
(* complete; else take the Once (incomplete -> running) and run the closure,  *)
(* or wait while another caller's closure runs and read the cell it set.      *)

\* A thread enters encode_instant_to_duration(instant): init(instant).
CallEncode(t) ==
  /\ pc[t] = "idle"
  /\ \E v \in Readings(mono) :
       /\ arg' = [arg EXCEPT ![t] = TsOf(v)]
       /\ now' = [now EXCEPT ![t] = TsOf(v)]
  /\ call' = [call EXCEPT ![t] = "encode"]
  /\ pc' = [pc EXCEPT ![t] = "init"]
  /\ UNCHANGED <<codecVars, clockVars, cell, seen, via, out>>

\* A thread enters decode_instant_from_duration(duration): init(Instant::now()).
CallDecode(t) ==
  /\ pc[t] = "idle"
  /\ \E d \in PeerDurations : arg' = [arg EXCEPT ![t] = d]
  /\ now' = [now EXCEPT ![t] = mono]
  /\ call' = [call EXCEPT ![t] = "decode"]
  /\ pc' = [pc EXCEPT ![t] = "init"]
  /\ UNCHANGED <<codecVars, clockVars, cell, seen, via, out>>

\* get_or_init finds the cell complete and returns its pair.
OnceGet(t) ==
  /\ pc[t] = "init"
  /\ cell.state = "complete"
  /\ seen' = [seen EXCEPT ![t] = cell]
  /\ via' = [via EXCEPT ![t] = "get"]
  /\ pc' = [pc EXCEPT ![t] = "have"]
  /\ UNCHANGED <<codecVars, clockVars, cell, call, arg, now, out>>

\* A racy variant: the closure is entered while another caller's closure runs.
OnceBeginUnguarded(t) ==
  /\ pc[t] = "init"
  /\ cell.state # "complete"
  /\ cell' = [cell EXCEPT !.state = "running"]
  /\ pc' = [pc EXCEPT ![t] = "closure"]
  /\ UNCHANGED <<codecVars, clockVars, call, arg, now, seen, via, out>>

\* get_or_init finds the cell incomplete and takes the Once: one atomic
\* compare-and-set, so one caller only runs the closure.
OnceBegin(t) ==
  /\ pc[t] = "init"
  /\ cell.state = "incomplete"
  /\ cell' = [cell EXCEPT !.state = "running"]
  /\ pc' = [pc EXCEPT ![t] = "closure"]
  /\ UNCHANGED <<codecVars, clockVars, call, arg, now, seen, via, out>>

\* get_or_init finds another caller's closure running and waits for it.
OnceWait(t) ==
  /\ pc[t] = "init"
  /\ cell.state = "running"
  /\ pc' = [pc EXCEPT ![t] = "wait"]
  /\ UNCHANGED <<codecVars, clockVars, cell, call, arg, now, seen, via, out>>

\* The waiting caller is woken when the cell is complete and returns its pair.
OnceWake(t) ==
  /\ pc[t] = "wait"
  /\ cell.state = "complete"
  /\ seen' = [seen EXCEPT ![t] = cell]
  /\ via' = [via EXCEPT ![t] = "wait"]
  /\ pc' = [pc EXCEPT ![t] = "have"]
  /\ UNCHANGED <<codecVars, clockVars, cell, call, arg, now, out>>

\* The closure: (SystemTime::now(), now) is stored and returned.
OnceClosure(t) ==
  /\ pc[t] = "closure"
  /\ cell' = init_closure(wall, now[t])
  /\ seen' = [seen EXCEPT ![t] = cell']
  /\ via' = [via EXCEPT ![t] = "closure"]
  /\ pc' = [pc EXCEPT ![t] = "have"]
  /\ UNCHANGED <<codecVars, clockVars, call, arg, now, out>>

\* The rest of the call: the Duration or Instant computed from the pair.
Return(t) ==
  /\ pc[t] = "have"
  /\ out' = [out EXCEPT ![t] =
               IF call[t] = "encode"
               THEN encode_instant_to_duration(seen[t], arg[t])
               ELSE decode_instant_from_duration(seen[t], arg[t])]
  /\ pc' = [pc EXCEPT ![t] = "done"]
  /\ UNCHANGED <<codecVars, clockVars, cell, call, arg, now, seen, via>>

NextClock ==
  \/ \E t \in Threads :
       \/ CallEncode(t)
       \/ CallDecode(t)
       \/ OnceGet(t)
       \/ OnceBegin(t)
       \/ OnceWait(t)
       \/ OnceWake(t)
       \/ OnceClosure(t)
       \/ Return(t)
  \/ Tick

SpecClock == Init /\ [][NextClock]_vars

====
